---- MODULE Spec2Model ----
(***************************************************************************)
(* Text-segmentation engine of preprocessing/pdf_text_extraction.py:       *)
(* _is_corrupted_text, extract_main_content, extract_references and        *)
(* extract_title_from_pdf, driven as process_pdf_with_metadata and         *)
(* process_pdf_without_metadata drive them.                                *)
(*                                                                         *)
(* A text is a sequence of cells [c |-> character, n |-> repetitions]:     *)
(* a cell with n = 1 is one character, a cell with n > 1 is a run of one   *)
(* character (body prose or garbage of realistic length).  The first and   *)
(* the last character of a run are cells of their own (Run, Canon), so a   *)
(* pattern element that takes one character can take either end of a run.  *)
(* Offsets (start_pos, end_pos, match.start(), match.end()) are character  *)
(* offsets as in the source; pattern positions are cell indices.           *)
(* Characters are one-character strings; a string that begins with ^ names *)
(* a character by its code point: "^A" is the control character U+0001,    *)
(* "^81" the undefined C1 code point U+0081, "^2013" the en dash.          *)
(***************************************************************************)
EXTENDS Integers, Sequences, FiniteSets, TLC

\* the text pipeline
VARIABLES raw_text, pc, corrupted, title, text, references, trace
\* the annotation run
VARIABLES pdf_list, api, files, started, at, run, retry, log

tvars == <<raw_text, pc, corrupted, title, text, references, trace>>
avars == <<pdf_list, api, files, started, at, run, retry, log>>
vars == <<tvars, avars>>

\* Python's None: for a text (no text has a cell of no characters), for a
\* match object and for an offset
None == << [c |-> "None", n |-> 0] >>
NoMatch == [none |-> TRUE]
NoPos == -1

-----------------------------------------------------------------------------
(* Characters and character classes of the patterns.                       *)

UpperAZ == {"A","B","C","D","E","F","G","H","I","J","K","L","M",
            "N","O","P","Q","R","S","T","U","V","W","X","Y","Z"}
LowerAZ == {"a","b","c","d","e","f","g","h","i","j","k","l","m",
            "n","o","p","q","r","s","t","u","v","w","x","y","z"}
UpperUml == {"Ä","Ö","Ü"}
LowerUml == {"ä","ö","ü"}
Digits == {"0","1","2","3","4","5","6","7","8","9"}
Whitespace == {" ", "\n", "\t", "\r", "\f"}

UpperSeq == <<"A","B","C","D","E","F","G","H","I","J","K","L","M",
              "N","O","P","Q","R","S","T","U","V","W","X","Y","Z","Ä","Ö","Ü","É">>
LowerSeq == <<"a","b","c","d","e","f","g","h","i","j","k","l","m",
              "n","o","p","q","r","s","t","u","v","w","x","y","z","ä","ö","ü","é">>

ToLower == [c \in UpperAZ \cup UpperUml \cup {"É"} |->
              LowerSeq[CHOOSE k \in 1..Len(UpperSeq) : UpperSeq[k] = c]]
ToUpper == [c \in LowerAZ \cup LowerUml \cup {"é"} |->
              UpperSeq[CHOOSE k \in 1..Len(LowerSeq) : LowerSeq[k] = c]]

\* str.lower() / the case folding of re.IGNORECASE on one character
Fold(c) == IF c \in DOMAIN ToLower THEN ToLower[c] ELSE c
Unfold(c) == IF c \in DOMAIN ToUpper THEN ToUpper[c] ELSE c

\* str.isalpha() on one character ("ß" has no upper-case partner)
IsAlpha(c) == c \in UpperAZ \cup LowerAZ \cup UpperUml \cup LowerUml \cup {"ß", "é", "É"}
IsDigit(c) == c \in Digits
IsSpace(c) == c \in Whitespace

-----------------------------------------------------------------------------
(* Texts as cell sequences.                                                *)

\* the text of a literal, one cell per character
Str(chars) == [i \in 1..Len(chars) |-> [c |-> chars[i], n |-> 1]]

\* the two halves of a sequence of two or more elements (the operators on
\* texts recurse on halves, which keeps their depth logarithmic)
Left(t) == SubSeq(t, 1, Len(t) \div 2)
Right(t) == SubSeq(t, Len(t) \div 2 + 1, Len(t))

RECURSIVE TextLen(_)
\* len(text)
TextLen(t) ==
  IF t = <<>> THEN 0
  ELSE IF Len(t) = 1 THEN t[1].n
  ELSE TextLen(Left(t)) + TextLen(Right(t))

\* character offset of cell index i (Len(t) + 1 is the end of the text)
Off(t, i) == TextLen(SubSeq(t, 1, i - 1))

RECURSIVE Norm(_)
\* the string a cell sequence spells, as maximal runs
Norm(t) ==
  IF Len(t) <= 1 THEN t
  ELSE LET l == Norm(Left(t))
           r == Norm(Right(t))
       IN  IF l[Len(l)].c = r[1].c
           THEN SubSeq(l, 1, Len(l) - 1)
                \o << [c |-> r[1].c, n |-> l[Len(l)].n + r[1].n] >>
                \o Tail(r)
           ELSE l \o r

\* n repetitions of character ch: its first and its last character are cells
\* of their own
Run(ch, n) ==
  IF n <= 0 THEN <<>>
  ELSE IF n = 1 THEN << [c |-> ch, n |-> 1] >>
  ELSE IF n = 2 THEN << [c |-> ch, n |-> 1], [c |-> ch, n |-> 1] >>
  ELSE << [c |-> ch, n |-> 1], [c |-> ch, n |-> n - 2], [c |-> ch, n |-> 1] >>

RECURSIVE Split(_)
Split(t) ==
  IF t = <<>> THEN <<>>
  ELSE IF Len(t) = 1 THEN Run(t[1].c, t[1].n)
  ELSE Split(Left(t)) \o Split(Right(t))

\* the one cell sequence that stands for the string t spells: two texts are
\* the same string exactly when their Canon is equal
Canon(t) == Split(Norm(t))

RECURSIVE Drop(_, _)
\* text[k:]
Drop(t, k) ==
  IF k <= 0 \/ t = <<>> THEN t
  ELSE IF Len(t) = 1
       THEN (IF t[1].n <= k THEN <<>> ELSE << [c |-> t[1].c, n |-> t[1].n - k] >>)
  ELSE LET l == TextLen(Left(t)) IN
       IF k >= l THEN Drop(Right(t), k - l) ELSE Drop(Left(t), k) \o Right(t)

RECURSIVE Take(_, _)
\* text[:k]
Take(t, k) ==
  IF k <= 0 \/ t = <<>> THEN <<>>
  ELSE IF Len(t) = 1
       THEN (IF t[1].n <= k THEN t ELSE << [c |-> t[1].c, n |-> k] >>)
  ELSE LET l == TextLen(Left(t)) IN
       IF k <= l THEN Take(Left(t), k) ELSE Left(t) \o Take(Right(t), k - l)

RECURSIVE Concat(_)
\* ''.join(segs)
Concat(segs) ==
  IF segs = <<>> THEN <<>>
  ELSE IF Len(segs) = 1 THEN segs[1]
  ELSE Concat(Left(segs)) \o Concat(Right(segs))

\* text[a:b] for 0 <= a (empty when b <= a, as a Python slice is)
Slice(t, a, b) == Canon(Take(Drop(t, a), b - a))

-----------------------------------------------------------------------------
(* Regular expressions of the source as syntax trees, matched as Python's  *)
(* re matches them: Ends(r, t, i, ic) lists the positions at which a match *)
(* of r that starts at cell index i of t can end, in the order in which    *)
(* the backtracking matcher tries them (greedy repetitions longest first,  *)
(* alternatives left to right); the first is the match re reports.         *)
(* ic is re.IGNORECASE.                                                    *)

Lit(chars) == [k |-> "lit", s |-> chars]
Cls(set) == [k |-> "cls", s |-> set, neg |-> FALSE]
NotCls(set) == [k |-> "cls", s |-> set, neg |-> TRUE]
\* X{lo,hi} on a character class; hi = -1 is unbounded
Rep(cl, lo, hi) == [k |-> "rep", s |-> cl.s, neg |-> cl.neg, lo |-> lo, hi |-> hi, lazy |-> FALSE]
LazyRep(cl, lo, hi) == [k |-> "rep", s |-> cl.s, neg |-> cl.neg, lo |-> lo, hi |-> hi, lazy |-> TRUE]
Star(cl) == Rep(cl, 0, -1)
Plus(cl) == Rep(cl, 1, -1)
Cat(rs) == [k |-> "cat", rs |-> rs]
Alt(rs) == [k |-> "alt", rs |-> rs]
Opt(r) == [k |-> "alt", rs |-> <<r, [k |-> "cat", rs |-> <<>>]>>]
NotAhead(r) == [k |-> "nla", r |-> r]
\* ^ and $ with re.MULTILINE, $ without it
Bol == [k |-> "bol"]
Eol == [k |-> "eol", ml |-> TRUE]
Eos == [k |-> "eol", ml |-> FALSE]

\* one character against a class: [set] or [^set], case-insensitively under ic
InCls(c, set, neg, ic) ==
  LET hit == \/ c \in set
             \/ ic /\ (Fold(c) \in set \/ Unfold(c) \in set)
  IN  IF neg THEN ~hit ELSE hit

\* the union of two position lists, first occurrences kept in order
Merge(a, b) ==
  IF a = <<>> THEN b
  ELSE IF b = <<>> THEN a
  ELSE a \o SelectSeq(b, LAMBDA e : \A j \in 1..Len(a) : a[j] # e)

RECURSIVE LitEnds(_, _, _, _, _)
LitEnds(chars, j, t, i, ic) ==
  IF j > Len(chars) THEN <<i>>
  ELSE IF i > Len(t) THEN <<>>
  ELSE IF t[i].n = 1 /\ (t[i].c = chars[j] \/ (ic /\ Fold(t[i].c) = Fold(chars[j])))
       THEN LitEnds(chars, j + 1, t, i + 1, ic)
       ELSE <<>>

RECURSIVE RepEnds(_, _, _, _, _)
\* the ends of a class repetition from cell i with cnt characters taken,
\* shortest first; a run is taken whole or not at all
RepEnds(r, t, i, cnt, ic) ==
  LET here == IF cnt >= r.lo THEN <<i>> ELSE <<>> IN
  IF /\ i <= Len(t)
     /\ InCls(t[i].c, r.s, r.neg, ic)
     /\ (r.hi = -1 \/ cnt + t[i].n <= r.hi)
  THEN here \o RepEnds(r, t, i + 1, cnt + t[i].n, ic)
  ELSE here

Reverse(s) == [j \in 1..Len(s) |-> s[Len(s) + 1 - j]]

RECURSIVE Ends(_, _, _, _), CatEnds(_, _, _, _, _), Bind(_, _, _, _, _, _), AltEnds(_, _, _, _, _)

Ends(r, t, i, ic) ==
  CASE r.k = "lit" -> LitEnds(r.s, 1, t, i, ic)
    [] r.k = "cls" -> IF i <= Len(t) /\ t[i].n = 1 /\ InCls(t[i].c, r.s, r.neg, ic)
                      THEN <<i + 1>> ELSE <<>>
    [] r.k = "rep" -> IF r.lazy THEN RepEnds(r, t, i, 0, ic)
                      ELSE Reverse(RepEnds(r, t, i, 0, ic))
    [] r.k = "bol" -> IF i = 1 \/ (i > 1 /\ t[i - 1].c = "\n") THEN <<i>> ELSE <<>>
    [] r.k = "eol" -> IF \/ i = Len(t) + 1
                         \/ r.ml /\ i <= Len(t) /\ t[i].c = "\n"
                         \/ ~r.ml /\ i = Len(t) /\ t[i].c = "\n" /\ t[i].n = 1
                      THEN <<i>> ELSE <<>>
    [] r.k = "nla" -> IF Ends(r.r, t, i, ic) = <<>> THEN <<i>> ELSE <<>>
    [] r.k = "cat" -> CatEnds(r.rs, 1, t, i, ic)
    [] r.k = "alt" -> AltEnds(r.rs, 1, t, i, ic)

CatEnds(rs, k, t, i, ic) ==
  IF k > Len(rs) THEN <<i>>
  ELSE Bind(Ends(rs[k], t, i, ic), 1, rs, k + 1, t, ic)

Bind(es, j, rs, k, t, ic) ==
  IF j > Len(es) THEN <<>>
  ELSE Merge(CatEnds(rs, k, t, es[j], ic), Bind(es, j + 1, rs, k, t, ic))

AltEnds(rs, k, t, i, ic) ==
  IF k > Len(rs) THEN <<>>
  ELSE Merge(Ends(rs[k], t, i, ic), AltEnds(rs, k + 1, t, i, ic))

\* a match object: cell positions and character offsets of start and end
\* (k is the index of the start among the start positions tried)
MatchAt(t, i, e) == [i |-> i, j |-> e, start |-> Off(t, i), end |-> Off(t, e), k |-> 0]

\* the positions at which a match of r can start: a pattern that begins with
\* ^ starts at the start of the text or behind a newline, any other anywhere
StartPositions(r, t) ==
  IF r.k = "cat" /\ r.rs # <<>> /\ r.rs[1].k = "bol"
  THEN SelectSeq([i \in 1..Len(t) + 1 |-> i], LAMBDA i : i = 1 \/ t[i - 1].c = "\n")
  ELSE [i \in 1..Len(t) + 1 |-> i]

\* the indices from k on of the start positions, not before cell pos, at
\* which r matches
Hits(r, t, starts, k, pos, ic) ==
  { j \in k..Len(starts) : starts[j] >= pos /\ Ends(r, t, starts[j], ic) # <<>> }

\* the match at start position starts[j]: the first end the matcher finds
HitAt(r, t, starts, j, ic) ==
  [MatchAt(t, starts[j], Ends(r, t, starts[j], ic)[1]) EXCEPT !.k = j]

LeftmostHit(r, t, starts, hits, ic) ==
  IF hits = {} THEN NoMatch
  ELSE HitAt(r, t, starts, CHOOSE j \in hits : \A h \in hits : j <= h, ic)

\* the leftmost match that starts at one of starts[k..] and not before cell pos
SearchIn(r, t, starts, k, pos, ic) ==
  LeftmostHit(r, t, starts, Hits(r, t, starts, k, pos, ic), ic)

\* re.search(r, t, flags): the leftmost match
Search(r, t, ic) == SearchIn(r, t, StartPositions(r, t), 1, 1, ic)

MatchFirstEnd(t, es) == IF es # <<>> THEN MatchAt(t, 1, es[1]) ELSE NoMatch

\* re.match(r, t, flags)
Match(r, t, ic) == MatchFirstEnd(t, Ends(r, t, 1, ic))

RECURSIVE FindIterFrom(_, _, _, _, _, _), FindIterAfter(_, _, _, _, _)
\* re.finditer(r, t, flags): the non-overlapping matches, left to right; the
\* scan resumes at the end of a match, one character later after an empty one
FindIterFrom(r, t, starts, k, pos, ic) ==
  FindIterAfter(r, t, starts, SearchIn(r, t, starts, k, pos, ic), ic)

FindIterAfter(r, t, starts, m, ic) ==
  IF m = NoMatch THEN <<>>
  ELSE <<m>> \o FindIterFrom(r, t, starts, m.k, IF m.j > m.i THEN m.j ELSE m.j + 1, ic)

FindIter(r, t, ic) == FindIterFrom(r, t, StartPositions(r, t), 1, 1, ic)

-----------------------------------------------------------------------------
(* The character classes and vocabularies the patterns of the source use.  *)

WS == Cls(Whitespace)                                  \* \s
Dig == Cls(Digits)                                     \* \d
NotNL == NotCls({"\n"})                                \* . and [^\n]
CapDE == Cls(UpperAZ \cup UpperUml)                    \* [A-ZÄÖÜ]
LetterDE == Cls(UpperAZ \cup LowerAZ \cup UpperUml \cup LowerUml)   \* [A-Za-zÄÖÜäöü]
One == Lit(<<"1">>)
NL == Lit(<<"\n">>)
Colon == Lit(<<":">>)

\* (?:Introduction|Einleitung|Einführung|Background|Motivation|Hintergrund)
IntroWords ==
  Alt(<<Lit(<<"I","n","t","r","o","d","u","c","t","i","o","n">>),
       Lit(<<"E","i","n","l","e","i","t","u","n","g">>),
       Lit(<<"E","i","n","f","ü","h","r","u","n","g">>),
       Lit(<<"B","a","c","k","g","r","o","u","n","d">>),
       Lit(<<"M","o","t","i","v","a","t","i","o","n">>),
       Lit(<<"H","i","n","t","e","r","g","r","u","n","d">>)>>)

\* (?:Introduction|Einleitung|Einführung|Problemstellung)
IntroWordsStandalone ==
  Alt(<<Lit(<<"I","n","t","r","o","d","u","c","t","i","o","n">>),
       Lit(<<"E","i","n","l","e","i","t","u","n","g">>),
       Lit(<<"E","i","n","f","ü","h","r","u","n","g">>),
       Lit(<<"P","r","o","b","l","e","m","s","t","e","l","l","u","n","g">>)>>)

\* (?:Introduction|Einleitung|Einführung)
IntroWordsTitled ==
  Alt(<<Lit(<<"I","n","t","r","o","d","u","c","t","i","o","n">>),
       Lit(<<"E","i","n","l","e","i","t","u","n","g">>),
       Lit(<<"E","i","n","f","ü","h","r","u","n","g">>)>>)

\* (?:Abstract|Zusammenfassung|Kurzfassung|Summary|Résumé)
AbstractWords ==
  Alt(<<Lit(<<"A","b","s","t","r","a","c","t">>),
       Lit(<<"Z","u","s","a","m","m","e","n","f","a","s","s","u","n","g">>),
       Lit(<<"K","u","r","z","f","a","s","s","u","n","g">>),
       Lit(<<"S","u","m","m","a","r","y">>),
       Lit(<<"R","é","s","u","m","é">>)>>)

\* (?:Keywords|Key\s+words|Schlüsselwörter|Schlagwörter|Keyphrases|Key\s+phrases|
\*    Index\s+Terms|Suchbegriffe|Stichwörter|Indexbegriffe)
KeywordsWords ==
  Alt(<<Lit(<<"K","e","y","w","o","r","d","s">>),
       Cat(<<Lit(<<"K","e","y">>), Plus(WS), Lit(<<"w","o","r","d","s">>)>>),
       Lit(<<"S","c","h","l","ü","s","s","e","l","w","ö","r","t","e","r">>),
       Lit(<<"S","c","h","l","a","g","w","ö","r","t","e","r">>),
       Lit(<<"K","e","y","p","h","r","a","s","e","s">>),
       Cat(<<Lit(<<"K","e","y">>), Plus(WS), Lit(<<"p","h","r","a","s","e","s">>)>>),
       Cat(<<Lit(<<"I","n","d","e","x">>), Plus(WS), Lit(<<"T","e","r","m","s">>)>>),
       Lit(<<"S","u","c","h","b","e","g","r","i","f","f","e">>),
       Lit(<<"S","t","i","c","h","w","ö","r","t","e","r">>),
       Lit(<<"I","n","d","e","x","b","e","g","r","i","f","f","e">>)>>)

\* (References|Literaturverzeichnis|Literaturverhzeichnis|Literatur|Bibliography|
\*  Bibliografie|Literature|Referenzen|Quellenverzeichnis|Quellen|Reference\s+List|
\*  Literaturverzeichnis\s+und\s+Internetquellen)
RefsWords ==
  Alt(<<Lit(<<"R","e","f","e","r","e","n","c","e","s">>),
       Lit(<<"L","i","t","e","r","a","t","u","r","v","e","r","z","e","i","c","h","n","i","s">>),
       Lit(<<"L","i","t","e","r","a","t","u","r","v","e","r","h","z","e","i","c","h","n","i","s">>),
       Lit(<<"L","i","t","e","r","a","t","u","r">>),
       Lit(<<"B","i","b","l","i","o","g","r","a","p","h","y">>),
       Lit(<<"B","i","b","l","i","o","g","r","a","f","i","e">>),
       Lit(<<"L","i","t","e","r","a","t","u","r","e">>),
       Lit(<<"R","e","f","e","r","e","n","z","e","n">>),
       Lit(<<"Q","u","e","l","l","e","n","v","e","r","z","e","i","c","h","n","i","s">>),
       Lit(<<"Q","u","e","l","l","e","n">>),
       Cat(<<Lit(<<"R","e","f","e","r","e","n","c","e">>), Plus(WS), Lit(<<"L","i","s","t">>)>>),
       Cat(<<Lit(<<"L","i","t","e","r","a","t","u","r","v","e","r","z","e","i","c","h","n","i","s">>), Plus(WS), Lit(<<"u","n","d">>), Plus(WS), Lit(<<"I","n","t","e","r","n","e","t","q","u","e","l","l","e","n">>)>>)>>)

-----------------------------------------------------------------------------
(* _is_corrupted_text                                                      *)

\* the default of sample_size
DEFAULT_SAMPLE_SIZE == 2000

\* the thresholds 0.30, 0.20, 0.15 and 0.03, in percent.  count / total is a
\* correctly rounded quotient of two integers below 2^53 and each threshold
\* the float nearest to its decimal, so  count / total < 0.30  is
\* 100 * count < 30 * total, and likewise for the three > comparisons.
ALPHA_MIN_PCT == 30
CONTROL_MAX_PCT == 20
TRANSITION_MAX_PCT == 15
PUNCT_MAX_PCT == 3

\* the code points below 32 that occur in the texts of this model
C0Controls == {"^A", "\t", "\n", "\f", "\r"}
\* undefined_c1_bytes = {129, 141, 143, 144, 157}
Undefined_c1 == {"^81", "^8D", "^8F", "^90", "^9D"}

RECURSIVE CountIf(_, _)
\* sum(1 for c in t if c in set)
CountIf(t, set) ==
  IF t = <<>> THEN 0
  ELSE IF Len(t) = 1 THEN (IF t[1].c \in set THEN t[1].n ELSE 0)
  ELSE CountIf(Left(t), set) + CountIf(Right(t), set)

RECURSIVE CountAlpha(_)
\* sum(1 for c in t if c.isalpha())
CountAlpha(t) ==
  IF t = <<>> THEN 0
  ELSE IF Len(t) = 1 THEN (IF IsAlpha(t[1].c) THEN t[1].n ELSE 0)
  ELSE CountAlpha(Left(t)) + CountAlpha(Right(t))

\* [a-zA-ZäöüÄÖÜß]\d|\d[a-zA-ZäöüÄÖÜß]
TransitionLetter == Cls(UpperAZ \cup LowerAZ \cup UpperUml \cup LowerUml \cup {"ß"})
TransitionPattern ==
  Alt(<<Cat(<<TransitionLetter, Dig>>), Cat(<<Dig, TransitionLetter>>)>>)

\* the first threshold with <= in the place of <
AlphaNotAbove(alphabetic, total_chars) == 100 * alphabetic <= ALPHA_MIN_PCT * total_chars

\* alpha_ratio < 0.30
AlphaTooLow(alphabetic, total_chars) == 100 * alphabetic < ALPHA_MIN_PCT * total_chars
\* control_ratio > 0.20
ControlTooHigh(control_chars, total_chars) == 100 * control_chars > CONTROL_MAX_PCT * total_chars
\* transition_ratio > 0.15
TransitionTooHigh(transitions, total_chars) == 100 * transitions > TRANSITION_MAX_PCT * total_chars
\* undefined_chars > 0
UndefinedPresent(undefined_chars) == undefined_chars > 0
\* unusual_punct_ratio > 0.03
PunctTooHigh(unusual_punct, total_chars) == 100 * unusual_punct > PUNCT_MAX_PCT * total_chars

\* the whole text taken as the sample
WholeText(t, sample_size) == t

\* sample = text[:min(sample_size, len(text))]
Sample(t, sample_size) ==
  Slice(t, 0, IF sample_size < TextLen(t) THEN sample_size ELSE TextLen(t))

\* the counts and the five checks on the sample
SampleIsCorrupted(sample) ==
  LET total_chars == TextLen(sample)
      alphabetic == CountAlpha(sample)
      control_chars == CountIf(sample, C0Controls \ {"\n", "\r", "\t"})
      transitions == Len(FindIter(TransitionPattern, sample, FALSE))
      undefined_chars == CountIf(sample, Undefined_c1)
      unusual_punct == CountIf(sample, {"=", ";"})
  IN  IF AlphaTooLow(alphabetic, total_chars) THEN TRUE
      ELSE IF ControlTooHigh(control_chars, total_chars) THEN TRUE
      ELSE IF TransitionTooHigh(transitions, total_chars) THEN TRUE
      ELSE IF UndefinedPresent(undefined_chars) THEN TRUE
      ELSE IF PunctTooHigh(unusual_punct, total_chars) THEN TRUE
      ELSE FALSE

_is_corrupted_text(t, sample_size) ==
  IF TextLen(t) = 0 THEN TRUE
  ELSE SampleIsCorrupted(Sample(t, sample_size))

-----------------------------------------------------------------------------
(* extract_main_content, step 1: where the main content starts             *)

\* "if match: ... else: <next>": the match when there is one, else next
MatchOr(match, next) == IF match # NoMatch THEN match ELSE next

\* "if start_pos is None: <next>": the offset when one is set, else next
PosOr(start_pos, next) == IF start_pos # NoPos THEN start_pos ELSE next

\* start_pos = offset + match.start() if match, else None
StartFrom(offset, match) == IF match # NoMatch THEN offset + match.start ELSE NoPos

\* match.start(1) of a pattern whose group 1 is its last character
Start1(m) == m.end - 1

\* start_pos = offset + match.start(1) if match, else None
Start1From(offset, match) == IF match # NoMatch THEN offset + Start1(match) ELSE NoPos

RECURSIVE FirstMatching(_, _, _, _)
\* the match of the first pattern of the list, in list order, that matches
\* anywhere in t (for pattern in patterns: match = re.search(...); break)
FirstMatching(patterns, k, t, ic) ==
  IF k > Len(patterns) THEN NoMatch
  ELSE MatchOr(Search(patterns[k], t, ic), FirstMatching(patterns, k + 1, t, ic))

patterns_priority_1 ==
  << Cat(<<Bol, Star(WS), One, Star(WS), NL, Star(WS), IntroWords>>),
     Cat(<<Bol, Star(WS), One, Opt(Lit(<<".">>)), Plus(WS), IntroWords>>),
     Cat(<<Bol, Star(WS), One, Colon, Star(WS), IntroWords>>) >>

\* Priority 1: number + introduction keyword, anywhere in the text
Priority1(t) == StartFrom(0, FirstMatching(patterns_priority_1, 1, t, TRUE))

\* ^(?:Abstract|Zusammenfassung|Kurzfassung|Summary|Résumé):\s*
pattern_abstract == Cat(<<Bol, AbstractWords, Colon, Star(WS)>>)

\* the width of the Priority-2 search region
P2_REGION == 2000
\* .{1,50} of the third Priority-2 pattern
P2_SUBTITLE_MAX == 50

\* [\s–—-]: "^2013" names the en dash and "^2014" the em dash
Dashes == Cls(Whitespace \cup {"^2013", "^2014", "-"})

patterns_priority_2 ==
  << Cat(<<Bol, Star(WS), IntroWordsStandalone, Star(WS), Eol>>),
     Cat(<<Bol, Star(WS), IntroWordsTitled, Colon, Star(WS), Plus(NotNL), Eol>>),
     Cat(<<Bol, Star(WS), IntroWordsTitled, Plus(Dashes), Rep(NotNL, 1, P2_SUBTITLE_MAX), Eol>>) >>

\* the region searched by Priority 2 and its offset in the text: the 2000
\* characters from the abstract heading, or the first 2000 of the text
Priority2Region(t, abstract_check) ==
  LET search_start == IF abstract_check # NoMatch THEN abstract_check.start ELSE 0
      search_end == IF abstract_check # NoMatch
                    THEN (IF TextLen(t) < abstract_check.start + P2_REGION
                          THEN TextLen(t) ELSE abstract_check.start + P2_REGION)
                    ELSE P2_REGION
  IN  [search_region |-> Slice(t, search_start, search_end), offset |-> search_start]

Priority2In(region) ==
  StartFrom(region.offset, FirstMatching(patterns_priority_2, 1, region.search_region, TRUE))

\* Priority 2: a standalone introduction keyword in the region
Priority2(t) == Priority2In(Priority2Region(t, Search(pattern_abstract, t, TRUE)))

\* ^(?:Keywords|...|Indexbegriffe):\s*
pattern_has_keywords == Cat(<<Bol, KeywordsWords, Colon, Star(WS)>>)

\* [^\n]{0,80} of the numbered and unnumbered heading patterns
TITLE_MAX == 80

\* "1   Title" or "1. Title", and "1\nTitle"
patterns_numbered ==
  << Cat(<<Bol, Star(WS), One, Opt(Lit(<<".">>)), Plus(WS), LetterDE, Rep(NotNL, 0, TITLE_MAX), Eol>>),
     Cat(<<Bol, Star(WS), One, Star(WS), NL, Star(WS), LetterDE, Rep(NotNL, 0, TITLE_MAX), Eol>>) >>

\* \n\s*\n+\s*(?!Keywords|...|Indexbegriffe)([A-ZÄÖÜ]); group 1 is the last
\* character of the match
pattern_next_para ==
  Cat(<<NL, Star(WS), Plus(Cls({"\n"})), Star(WS), NotAhead(KeywordsWords), CapDE>>)

\* \.\n([A-ZÄÖÜ]); group 1 is the last character of the match
pattern_para_break == Cat(<<Lit(<<".">>), NL, CapDE>>)

MIN_ABSTRACT_CHARS == 400

\* the first period + newline + capital of the text below the abstract heading
FirstParaBreak(remaining, abstract_end) ==
  Start1From(abstract_end, Search(pattern_para_break, remaining, FALSE))

\* Priority 3, strategy 3: period + newline + capital, first beyond the
\* minimum abstract length, then anywhere
AbstractParaBreak(remaining, abstract_end) ==
  PosOr(IF TextLen(remaining) > MIN_ABSTRACT_CHARS
        THEN Start1From(abstract_end + MIN_ABSTRACT_CHARS,
                        Search(pattern_para_break,
                               Slice(remaining, MIN_ABSTRACT_CHARS, TextLen(remaining)), FALSE))
        ELSE NoPos,
        Start1From(abstract_end, Search(pattern_para_break, remaining, FALSE)))

\* a start offset with the strategy that found it (0 when there is none)
Strategy(pos, strategy) == [pos |-> pos, strategy |-> IF pos = NoPos THEN 0 ELSE strategy]

StrategyOr(found, next) == IF found.pos # NoPos THEN found ELSE next

\* the three strategies below the abstract heading that ends at abstract_end
Priority3In(remaining, abstract_end) ==
  StrategyOr(Strategy(StartFrom(abstract_end,
                                FirstMatching(patterns_numbered, 1, remaining, FALSE)), 1),
  StrategyOr(Strategy(Start1From(abstract_end,
                                 Search(pattern_next_para, remaining, TRUE)), 2),
             Strategy(AbstractParaBreak(remaining, abstract_end), 3)))

Priority3Below(t, match) ==
  IF match = NoMatch THEN Strategy(NoPos, 0)
  ELSE Priority3In(Slice(t, match.end, TextLen(t)), match.end)

\* Priority 3 without the test for a keywords heading
Priority3Ungated(t) == Priority3Below(t, Search(pattern_abstract, t, TRUE))

\* Priority 3: below the abstract, only for a text without a keywords heading
Priority3(t) ==
  IF Search(pattern_has_keywords, t, TRUE) # NoMatch THEN Strategy(NoPos, 0)
  ELSE Priority3Below(t, Search(pattern_abstract, t, TRUE))

\* ^(?:Keywords|...|Indexbegriffe):\s*.+$
pattern_keywords == Cat(<<Bol, KeywordsWords, Colon, Star(WS), Plus(NotNL), Eol>>)
\* ^\s*[A-ZÄÖÜ]
pattern_first_uppercase == Cat(<<Bol, Star(WS), CapDE>>)
\* ^\s*[A-Za-zÄÖÜäöü][^\n]{0,80}$
pattern_unnumbered == Cat(<<Bol, Star(WS), LetterDE, Rep(NotNL, 0, TITLE_MAX), Eol>>)
\* ^\s*[A-ZÄÖÜ][^\n]+$
pattern_next_line == Cat(<<Bol, Star(WS), CapDE, Plus(NotNL), Eol>>)

\* the buffer after the first upper-case line below the keywords
P4_BUFFER == 150

\* the lines searched for a section heading: up to 150 characters behind the
\* start of the first upper-case line
Priority4Region(remaining_text, first_uppercase_match) ==
  LET search_limit == IF first_uppercase_match # NoMatch
                      THEN first_uppercase_match.start + P4_BUFFER
                      ELSE P4_BUFFER
  IN  Slice(remaining_text, 0,
            IF search_limit < TextLen(remaining_text)
            THEN search_limit ELSE TextLen(remaining_text))

\* the strategies below the keywords heading that ends at keywords_end
Priority4Strategies(remaining_text, search_region, keywords_end) ==
  PosOr(StartFrom(keywords_end, Search(pattern_unnumbered, search_region, FALSE)),
  PosOr(StartFrom(keywords_end, FirstMatching(patterns_numbered, 1, search_region, FALSE)),
        StartFrom(keywords_end, Search(pattern_next_line, remaining_text, FALSE))))

Priority4In(remaining_text, keywords_end) ==
  Priority4Strategies(
    remaining_text,
    Priority4Region(remaining_text, Search(pattern_first_uppercase, remaining_text, FALSE)),
    keywords_end)

Priority4Below(t, match) ==
  IF match = NoMatch THEN NoPos
  ELSE Priority4In(Slice(t, match.end, TextLen(t)), match.end)

\* Priority 4: below the keywords heading
Priority4(t) == Priority4Below(t, Search(pattern_keywords, t, TRUE))

\* Priority 5: number + any section title, anywhere in the text
Priority5(t) == StartFrom(0, FirstMatching(patterns_numbered, 1, t, FALSE))

\* the result of the priorities in tried, the last of which is k
Tried(start_pos, k, tried) ==
  [start_pos |-> start_pos, prio |-> IF start_pos = NoPos THEN 0 ELSE k, tried |-> tried]

\* "if start_pos is None: <next priority>"
TriedOr(found, next) == IF found.start_pos # NoPos THEN found ELSE next

\* the cascade with Priority 5 in front of Priority 1
CascadeFiveFirst(t) ==
  TriedOr(Tried(Priority5(t), 5, {5}),
  TriedOr(Tried(Priority1(t), 1, {5, 1}),
  TriedOr(Tried(Priority2(t), 2, {5, 1, 2}),
  TriedOr(Tried(Priority3(t).pos, 3, {5, 1, 2, 3}),
          Tried(Priority4(t), 4, {1, 2, 3, 4, 5})))))

\* the cascade: a priority is evaluated only while start_pos is None.
\* tried is the set of priorities that were evaluated, prio the one that set
\* start_pos (0 when none did)
StartCascade(t) ==
  TriedOr(Tried(Priority1(t), 1, {1}),
  TriedOr(Tried(Priority2(t), 2, {1, 2}),
  TriedOr(Tried(Priority3(t).pos, 3, {1, 2, 3}),
  TriedOr(Tried(Priority4(t), 4, {1, 2, 3, 4}),
          Tried(Priority5(t), 5, {1, 2, 3, 4, 5})))))

-----------------------------------------------------------------------------
(* extract_main_content, step 2: where the main content ends               *)

\* ^\s*(?:\d+\s*\n\s*|\d+\.?\s+)?(References|...)\d*\s*$
pattern_refs ==
  Cat(<<Bol, Star(WS),
        Opt(Alt(<<Cat(<<Plus(Dig), Star(WS), NL, Star(WS)>>),
                  Cat(<<Plus(Dig), Opt(Lit(<<".">>)), Plus(WS)>>)>>)),
        RefsWords, Star(Dig), Star(WS), Eol>>)

\* min_position = int(text_length * 0.50)
min_position(text_length) == text_length \div 2

\* the candidate headings: every match of pattern_refs that starts in the
\* last 50% of the text
MainCandidates(t) ==
  SelectSeq(FindIter(pattern_refs, t, TRUE),
            LAMBDA m : m.start >= min_position(TextLen(t)))

\* the characters after a heading in which reference entries are looked for
VALIDATION_WINDOW == 1500

REFERENCE_PATTERNS ==
  << \* \s*\[(?:[A-Za-z]{2,4}|[A-Z][a-z]{1,2})\d{2}\]
     Cat(<<Star(WS), Lit(<<"[">>),
           Alt(<<Rep(Cls(UpperAZ \cup LowerAZ), 2, 4),
                 Cat(<<Cls(UpperAZ), Rep(Cls(LowerAZ), 1, 2)>>)>>),
           Rep(Dig, 2, 2), Lit(<<"]">>)>>),
     \* ^\s*\[\d{1,3}\]
     Cat(<<Bol, Star(WS), Lit(<<"[">>), Rep(Dig, 1, 3), Lit(<<"]">>)>>),
     \* ^[A-ZÄÖÜ][a-zäöüß]+,\s+[A-Z].*?\(\d{4}\)
     Cat(<<Bol, CapDE, Plus(Cls(LowerAZ \cup LowerUml \cup {"ß"})), Lit(<<",">>), Plus(WS),
           Cls(UpperAZ), LazyRep(NotNL, 0, -1), Lit(<<"(">>), Rep(Dig, 4, 4), Lit(<<")">>)>>),
     \* \s*\[[A-Z][A-Za-z-]+\s+\d{4}\]
     Cat(<<Star(WS), Lit(<<"[">>), Cls(UpperAZ), Plus(Cls(UpperAZ \cup LowerAZ \cup {"-"})),
           Plus(WS), Rep(Dig, 4, 4), Lit(<<"]">>)>>) >>

\* sample = raw_text[m.end(): min(len(raw_text), m.end() + 1500)]
ValidationSample(t, m) ==
  Slice(t, m.end, IF TextLen(t) < m.end + VALIDATION_WINDOW
                  THEN TextLen(t) ELSE m.end + VALIDATION_WINDOW)

\* a validation that accepts every candidate heading
MainAlwaysValid(t, m) == TRUE

\* is_valid = any(re.search(pattern, sample, re.MULTILINE) for pattern in REFERENCE_PATTERNS)
MainIsValid(t, m) ==
  LET sample == ValidationSample(t, m) IN
  \E k \in 1..Len(REFERENCE_PATTERNS) : Search(REFERENCE_PATTERNS[k], sample, FALSE) # NoMatch

\* the scan of the candidates from the front: the first valid one is taken
MainFirstValid(t, candidates, k) ==
  LET valid == { j \in 1..k : MainIsValid(t, candidates[j]) }
  IN  IF valid = {} THEN NoMatch
      ELSE candidates[CHOOSE j \in valid : \A i \in valid : j <= i]

RECURSIVE MainLastValid(_, _, _)
\* for m in reversed(candidates): if is_valid: match = m; break
MainLastValid(t, candidates, k) ==
  IF k < 1 THEN NoMatch
  ELSE IF MainIsValid(t, candidates[k]) THEN candidates[k]
       ELSE MainLastValid(t, candidates, k - 1)

MainLastOf(t, candidates) == MainLastValid(t, candidates, Len(candidates))

\* the references heading that ends the main content, or None
MainHeading(t) == MainLastOf(t, MainCandidates(t))

\* an end offset behind the heading instead of in front of it
EndAfterHeading(t, match) == IF match # NoMatch THEN match.end ELSE TextLen(t)

\* end_pos = match.start() if match else len(raw_text)
EndPos(t, match) == IF match # NoMatch THEN match.start ELSE TextLen(t)

\* what a call of extract_main_content leaves: the value returned, the verdict
\* of the corruption gate, and the locals start_pos, end_pos and match (with
\* the priority that set start_pos and the priorities evaluated)
NoMain(verdict) ==
  [result |-> None, corrupted |-> verdict, matching |-> FALSE,
   start_pos |-> NoPos, end_pos |-> NoPos, prio |-> 0, tried |-> {}, heading |-> NoMatch]

\* return raw_text[start_pos:end_pos]
MainSpan(raw, c, match, end_pos) ==
  [result |-> Slice(raw, c.start_pos, end_pos), corrupted |-> FALSE,
   matching |-> TRUE, start_pos |-> c.start_pos, end_pos |-> end_pos,
   prio |-> c.prio, tried |-> c.tried, heading |-> match]

\* STEP 2 for the start offset the cascade c found
MainUpTo(raw, c, match) == MainSpan(raw, c, match, EndPos(raw, match))

\* a cascade that falls back to offset 0 when no priority matches
StartOrZero(c) == [c EXCEPT !.start_pos = IF @ = NoPos THEN 0 ELSE @]

\* extract_main_content falling back to offset 0 when no priority matches
MainFromZero(raw) == MainUpTo(raw, StartOrZero(StartCascade(raw)), MainHeading(raw))

\* if start_pos is None: return None; else STEP 2
MainFrom(raw, c) ==
  IF c.start_pos = NoPos
  THEN [NoMain(FALSE) EXCEPT !.matching = TRUE, !.tried = c.tried]
  ELSE MainUpTo(raw, c, MainHeading(raw))

MainContentBody(raw) == MainFrom(raw, StartCascade(raw))

extract_main_content(raw) ==
  IF _is_corrupted_text(raw, DEFAULT_SAMPLE_SIZE) THEN NoMain(TRUE)
  ELSE MainContentBody(raw)

-----------------------------------------------------------------------------
(* extract_references                                                      *)

\* ^\s*(?:\d+\s*\n\s*|\d+\.?\s+)?(References|...)\d*\s*$
pattern_refs_start ==
  Cat(<<Bol, Star(WS),
        Opt(Alt(<<Cat(<<Plus(Dig), Star(WS), NL, Star(WS)>>),
                  Cat(<<Plus(Dig), Opt(Lit(<<".">>)), Plus(WS)>>)>>)),
        RefsWords, Star(Dig), Star(WS), Eol>>)

\* a position constraint that admits every offset
NoMinPosition(text_length) == 0

\* min_position = int(text_length * 0.50)
refs_min_position(text_length) == text_length \div 2

RefsCandidates(t) ==
  SelectSeq(FindIter(pattern_refs_start, t, TRUE),
            LAMBDA m : m.start >= refs_min_position(TextLen(t)))

REFS_VALIDATION_WINDOW == 1500

\* the same four patterns, as listed a second time in extract_references
REFS_REFERENCE_PATTERNS ==
  << Cat(<<Star(WS), Lit(<<"[">>),
           Alt(<<Rep(Cls(UpperAZ \cup LowerAZ), 2, 4),
                 Cat(<<Cls(UpperAZ), Rep(Cls(LowerAZ), 1, 2)>>)>>),
           Rep(Dig, 2, 2), Lit(<<"]">>)>>),
     Cat(<<Bol, Star(WS), Lit(<<"[">>), Rep(Dig, 1, 3), Lit(<<"]">>)>>),
     Cat(<<Bol, CapDE, Plus(Cls(LowerAZ \cup LowerUml \cup {"ß"})), Lit(<<",">>), Plus(WS),
           Cls(UpperAZ), LazyRep(NotNL, 0, -1), Lit(<<"(">>), Rep(Dig, 4, 4), Lit(<<")">>)>>),
     Cat(<<Star(WS), Lit(<<"[">>), Cls(UpperAZ), Plus(Cls(UpperAZ \cup LowerAZ \cup {"-"})),
           Plus(WS), Rep(Dig, 4, 4), Lit(<<"]">>)>>) >>

\* sample = raw_text[m.end(): min(len(raw_text), m.end() + 1500)]
RefsValidationSample(t, m) ==
  Slice(t, m.end, IF TextLen(t) < m.end + REFS_VALIDATION_WINDOW
                  THEN TextLen(t) ELSE m.end + REFS_VALIDATION_WINDOW)

\* a validation that accepts every candidate heading of extract_references
RefsAlwaysValid(t, m) == TRUE

RefsIsValid(t, m) ==
  LET sample == RefsValidationSample(t, m) IN
  \E k \in 1..Len(REFS_REFERENCE_PATTERNS) :
     Search(REFS_REFERENCE_PATTERNS[k], sample, FALSE) # NoMatch

\* the scan of the candidates from the front: the first valid one is taken
RefsFirstValid(t, candidates, k) ==
  LET valid == { j \in 1..k : RefsIsValid(t, candidates[j]) }
  IN  IF valid = {} THEN NoMatch
      ELSE candidates[CHOOSE j \in valid : \A i \in valid : j <= i]

RECURSIVE RefsLastValid(_, _, _)
\* for m in reversed(candidates): if is_valid: match = m; break
RefsLastValid(t, candidates, k) ==
  IF k < 1 THEN NoMatch
  ELSE IF RefsIsValid(t, candidates[k]) THEN candidates[k]
       ELSE RefsLastValid(t, candidates, k - 1)

RefsLastOf(t, candidates) == RefsLastValid(t, candidates, Len(candidates))

RefsHeading(t) == RefsLastOf(t, RefsCandidates(t))

RECURSIVE LStrip(_)
LStrip(t) == IF t # <<>> /\ IsSpace(Head(t).c) THEN LStrip(Tail(t)) ELSE t

RECURSIVE RStrip(_)
RStrip(t) == IF t # <<>> /\ IsSpace(t[Len(t)].c) THEN RStrip(SubSeq(t, 1, Len(t) - 1)) ELSE t

\* str.strip()
Strip(t) == RStrip(LStrip(t))

\* the longest page number of the trailing-line patterns: \d{1,4}
PAGE_DIGITS == 4

LowerDE == Cls(LowerAZ \cup LowerUml \cup {"ß"})          \* [a-zäöüß]

\* \n\d{1,4}\s*$
pattern_a == Cat(<<NL, Rep(Dig, 1, PAGE_DIGITS), Star(WS), Eos>>)
\* \n\d{1,4}\s+[A-ZÄÖÜ][a-zäöüß]+.*$
pattern_b == Cat(<<NL, Rep(Dig, 1, PAGE_DIGITS), Plus(WS), CapDE, Plus(LowerDE), Star(NotNL), Eos>>)
\* \n[A-ZÄÖÜ].+\s+\d{1,4}\s*$
pattern_c == Cat(<<NL, CapDE, Plus(NotNL), Plus(WS), Rep(Dig, 1, PAGE_DIGITS), Star(WS), Eos>>)

\* a cut that keeps the trailing line instead of the entries in front of it
CutBehind(refs, match, trim) ==
  [value |-> Canon(Strip(Slice(refs, match.start, TextLen(refs)))), trim |-> trim]

\* references = references[:match.start()]; return references.strip()
CutAt(refs, match, trim) ==
  [value |-> Canon(Strip(Slice(refs, 0, match.start))), trim |-> trim]

\* "if match_x: <cut and return>", else the next pattern
CutOr(refs, match, trim, next) == IF match # NoMatch THEN CutAt(refs, match, trim) ELSE next

\* the trailing line removed: the first of patterns A, B, C that matches
\* decides (trim names it, "" when none matches)
TrimTrailing(refs) ==
  CutOr(refs, Search(pattern_a, refs, FALSE), "A",
  CutOr(refs, Search(pattern_b, refs, FALSE), "B",
  CutOr(refs, Search(pattern_c, refs, FALSE), "C",
        [value |-> Canon(Strip(refs)), trim |-> ""])))

NoRefs(verdict) ==
  [result |-> None, corrupted |-> verdict, matching |-> FALSE, heading |-> NoMatch,
   block |-> None, trim |-> ""]

ReferencesTrimmed(match, block, trimmed) ==
  [result |-> trimmed.value, corrupted |-> FALSE, matching |-> TRUE,
   heading |-> match, block |-> block, trim |-> trimmed.trim]

\* the block after the heading, and the block without its trailing line
ReferencesOf(match, block) == ReferencesTrimmed(match, block, TrimTrailing(block))

\* if not match: return None; references = raw_text[match.end():].strip()
ReferencesAfter(raw, match) ==
  IF match = NoMatch THEN [NoRefs(FALSE) EXCEPT !.matching = TRUE]
  ELSE ReferencesOf(match, Canon(Strip(Slice(raw, match.end, TextLen(raw)))))

ReferencesBody(raw) == ReferencesAfter(raw, RefsHeading(raw))

extract_references(raw) ==
  IF _is_corrupted_text(raw, DEFAULT_SAMPLE_SIZE) THEN NoRefs(TRUE)
  ELSE ReferencesBody(raw)

-----------------------------------------------------------------------------
(* extract_title_from_pdf                                                  *)

\* the defaults of max_lines and max_chars
DEFAULT_MAX_LINES == 5
DEFAULT_MAX_CHARS == 800

RECURSIVE SplitLines(_)
\* text.split('\n'): the lines of a text, one more than it has newlines
SplitLines(t) ==
  IF t = <<>> THEN << <<>> >>
  ELSE IF Len(t) = 1
       THEN (IF t[1].c = "\n" THEN [j \in 1..t[1].n + 1 |-> <<>>] ELSE << t >>)
  ELSE LET l == SplitLines(Left(t))
           r == SplitLines(Right(t))
       IN  SubSeq(l, 1, Len(l) - 1) \o << l[Len(l)] \o r[1] >> \o Tail(r)

\* str.lower()
Lower(t) == [j \in 1..Len(t) |-> [c |-> Fold(t[j].c), n |-> t[j].n]]

\* str.isdigit()
IsDigitText(t) == t # <<>> /\ \A j \in 1..Len(t) : IsDigit(t[j].c)

\* \(Hrsg\.\), Lecture Notes in Informatics, Gesellschaft für Informatik
header_patterns ==
  << Lit(<<"(","H","r","s","g",".",")">>),
     Lit(<<"L","e","c","t","u","r","e"," ","N","o","t","e","s"," ","i","n"," ",
           "I","n","f","o","r","m","a","t","i","c","s">>),
     Lit(<<"G","e","s","e","l","l","s","c","h","a","f","t"," ","f","ü","r"," ",
           "I","n","f","o","r","m","a","t","i","k">>) >>

\* the lines looked at for header metadata: lines[:5]
HEADER_SCAN_LINES == 5
\* ^\d{1,3}$
PAGE_NUMBER_DIGITS == 3
pattern_page_number == Cat(<<Bol, Rep(Dig, 1, PAGE_NUMBER_DIGITS), Eos>>)

is_header(line_stripped) ==
  \E k \in 1..Len(header_patterns) : Search(header_patterns[k], line_stripped, TRUE) # NoMatch

is_page_number(line_stripped) == Match(pattern_page_number, line_stripped, FALSE) # NoMatch

RECURSIVE SkipHeader(_, _, _)
\* STEP 1: start_idx behind the last header line among the first five lines;
\* the scan ends at the first non-empty line that is no header (indices are
\* the source's, from 0: lines[i] is lines[i + 1] here)
SkipHeader(lines, i, start_idx) ==
  IF i >= Len(lines) \/ i >= HEADER_SCAN_LINES THEN start_idx
  ELSE LET line_stripped == Strip(lines[i + 1]) IN
       IF line_stripped = <<>> THEN SkipHeader(lines, i + 1, start_idx)
       ELSE IF is_header(line_stripped) \/ is_page_number(line_stripped)
            THEN SkipHeader(lines, i + 1, i + 1)
            ELSE start_idx

MAX_BLANK_LINES == 10

RECURSIVE SkipBlank(_, _, _)
\* STEP 1.5: start_idx advanced over at most MAX_BLANK_LINES blank lines
SkipBlank(lines, start_idx, blank_count) ==
  IF start_idx < Len(lines) /\ blank_count < MAX_BLANK_LINES
     /\ Strip(lines[start_idx + 1]) = <<>>
  THEN SkipBlank(lines, start_idx + 1, blank_count + 1)
  ELSE start_idx

\* UPPER and LOWER of the author patterns
UPPER ==
  Cls(UpperAZ \cup {"Ä","Ö","Ü","Á","É","Í","Ó","Ú","À","È","Ì","Ò","Ù","Â","Ê","Î","Ô","Û",
                    "Ã","Õ","Ñ","^102","^218","^21A","^10C","^160","^17D","^110","^141",
                    "^143","^15A","^179","^17B","^104","^118","^106"})
LOWER ==
  Cls(LowerAZ \cup {"ä","ö","ü","ß","á","é","í","ó","ú","à","è","ì","ò","ù","â","ê","î","ô","û",
                    "ã","õ","ñ","^103","^219","^21B","^10D","^161","^17E","^111","^142",
                    "^144","^15B","^17A","^17C","^105","^119","^107","¨","´","^60"})

\* (?:[A-Z]\.?\s+)?
MIDDLE_INITIAL == Opt(Cat(<<Cls(UpperAZ), Opt(Lit(<<".">>)), Plus(WS)>>))

\* [\s\d*†‡§¶]* and [\d*†‡§¶]
Markers == Digits \cup {"*", "^2020", "^2021", "§", "¶"}

\* {UPPER}{LOWER}+\s+{MIDDLE_INITIAL}{UPPER}{LOWER}+
NameShape == <<UPPER, Plus(LOWER), Plus(WS), MIDDLE_INITIAL, UPPER, Plus(LOWER)>>

\* ^{UPPER}{LOWER}+\s+{MIDDLE_INITIAL}{UPPER}{LOWER}+[\s\d*†‡§¶]*,.*{UPPER}{LOWER}+
author_pattern_commas ==
  Cat(<<Bol>> \o NameShape
      \o <<Star(Cls(Whitespace \cup Markers)), Lit(<<",">>), Star(NotNL), UPPER, Plus(LOWER)>>)

\* (?:[\s\d]und\s|\s&\s){UPPER}{LOWER}+\s+{MIDDLE_INITIAL}{UPPER}{LOWER}+
author_pattern_und_base ==
  Cat(<<Alt(<<Cat(<<Cls(Whitespace \cup Digits), Lit(<<"u","n","d">>), WS>>),
              Cat(<<WS, Lit(<<"&">>), WS>>)>>)>> \o NameShape)

\* ^{UPPER}{LOWER}+\s+{MIDDLE_INITIAL}{UPPER}{LOWER}+[\s\d*†‡§¶]*$
author_pattern_single ==
  Cat(<<Bol>> \o NameShape \o <<Star(Cls(Whitespace \cup Markers)), Eos>>)

\* [A-ZÄÖÜ][a-zäöüß]+[\d*†‡§¶]
pattern_affiliation_marker == Cat(<<CapDE, Plus(LowerDE), Cls(Markers)>>)

\* ^{UPPER}{LOWER}+\s+{MIDDLE_INITIAL}{UPPER}{LOWER}+
pattern_starts_with_name == Cat(<<Bol>> \o NameShape)

institution_keywords ==
  << <<"h","o","c","h","s","c","h","u","l","e">>,
     <<"u","n","i","v","e","r","s","i","t","ä","t">>,
     <<"i","n","s","t","i","t","u","t">>,
     <<"f","a","k","u","l","t","ä","t">>,
     <<"u","n","i","v","e","r","s","i","t","y">>,
     <<"i","n","s","t","i","t","u","t","e">>,
     <<"f","a","c","u","l","t","y">>,
     <<"d","e","p","a","r","t","m","e","n","t">>,
     <<"f","a","c","h","b","e","r","e","i","c","h">>,
     <<"l","e","h","r","s","t","u","h","l">>,
     <<"f","r","a","u","n","h","o","f","e","r">>,
     <<"s","c","h","o","o","l">>,
     <<"c","o","l","l","e","g","e">> >>

\* 'keyword in line_stripped.lower()' for some institution keyword
HasInstitutionKeyword(line_stripped) ==
  \E k \in 1..Len(institution_keywords) :
     Search(Lit(institution_keywords[k]), Lower(line_stripped), FALSE) # NoMatch

has_comma(line) == Search(author_pattern_commas, line, FALSE) # NoMatch

has_und(line) ==
  /\ Search(author_pattern_und_base, line, FALSE) # NoMatch
  /\ Search(pattern_affiliation_marker, line, FALSE) # NoMatch

\* the lines the lookahead of a single-author line may look at: range(i + 1, min(i + 3, len(lines)))
LOOKAHEAD_LINES == 2

\* the first non-empty line among the next two names several authors
next_has_multiple_authors(lines, i) ==
  LET last == IF i + LOOKAHEAD_LINES + 1 < Len(lines) THEN i + LOOKAHEAD_LINES + 1 ELSE Len(lines)
      nonempty == { j \in i + 1..last - 1 : Strip(lines[j + 1]) # <<>> }
  IN  /\ nonempty # {}
      /\ LET j == CHOOSE j \in nonempty : \A h \in nonempty : j <= h
             next_line == Strip(lines[j + 1])
         IN  has_comma(next_line) \/ has_und(next_line)

\* the author line by the patterns alone, without the validation of a line
\* joined by 'und' or '&'
AuthorLineUnvalidated(lines, i) ==
  LET line_stripped == Strip(lines[i + 1]) IN
  IF Search(author_pattern_commas, line_stripped, FALSE) # NoMatch THEN "commas"
  ELSE IF Search(author_pattern_und_base, line_stripped, FALSE) # NoMatch THEN "und"
  ELSE IF /\ Match(author_pattern_single, line_stripped, FALSE) # NoMatch
          /\ ~HasInstitutionKeyword(line_stripped)
          /\ ~next_has_multiple_authors(lines, i)
       THEN "single"
  ELSE ""

\* the author line at which collection stops, by the pattern that finds it
\* ("" for a line that is none)
AuthorLine(lines, i) ==
  LET line_stripped == Strip(lines[i + 1]) IN
  IF Search(author_pattern_commas, line_stripped, FALSE) # NoMatch THEN "commas"
  ELSE IF /\ Search(author_pattern_und_base, line_stripped, FALSE) # NoMatch
          /\ Search(pattern_affiliation_marker, line_stripped, FALSE) # NoMatch
          /\ Match(pattern_starts_with_name, line_stripped, FALSE) # NoMatch
       THEN "und"
  ELSE IF /\ Match(author_pattern_single, line_stripped, FALSE) # NoMatch
          /\ ~HasInstitutionKeyword(line_stripped)
          /\ ~next_has_multiple_authors(lines, i)
       THEN "single"
  ELSE ""

\* a title line is longer than this
MIN_TITLE_LINE_CHARS == 5
\* the loop looks at max_lines + 3 lines from start_idx on
EXTRA_LINES == 3

\* a test that lets every line through
AnyLine(line_stripped) == TRUE

\* len(line_stripped) > 5 and not line_stripped.isdigit()
IsTitleLine(line_stripped) ==
  TextLen(line_stripped) > MIN_TITLE_LINE_CHARS /\ ~IsDigitText(line_stripped)

\* the loop left at line i for the given reason
Stopped(title_lines, i, reason) == [picked |-> title_lines, stop |-> i, reason |-> reason]

\* an author line passed over instead of ending the loop
AuthorSkipped(author, title_lines, i, rest) == rest

\* "break" at an author line, else the rest of the loop body
AuthorStop(author, title_lines, i, rest) ==
  IF author # "" THEN Stopped(title_lines, i, author) ELSE rest

RECURSIVE Collect(_, _, _, _, _)
\* STEP 2: the indices of the lines collected as title lines, the index at
\* which the loop stopped and why
Collect(lines, i, last, title_lines, max_lines) ==
  IF i >= last THEN Stopped(title_lines, i, "end")
  ELSE LET line_stripped == Strip(lines[i + 1]) IN
       IF line_stripped = <<>> THEN Collect(lines, i + 1, last, title_lines, max_lines)
       ELSE AuthorStop(AuthorLine(lines, i), title_lines, i,
              IF Len(title_lines) >= max_lines
              THEN Stopped(title_lines, i, "limit")
              ELSE IF IsTitleLine(line_stripped)
                   THEN Collect(lines, i + 1, last, Append(title_lines, i), max_lines)
                   ELSE Collect(lines, i + 1, last, title_lines, max_lines))

\* ' '.join(title_lines)
Join(ls) ==
  Concat([k \in 1..2 * Len(ls) - 1 |-> IF k % 2 = 1 THEN ls[(k + 1) \div 2] ELSE Str(<<" ">>)])

\* title.replace('- ', '-'): the spaces behind a hyphen lose their first
ReplaceHyphenSpace(t) ==
  LET runs == Norm(t)
      cut == [j \in 1..Len(runs) |->
                IF runs[j].c = " " /\ j > 1 /\ runs[j - 1].c = "-"
                THEN [c |-> " ", n |-> runs[j].n - 1] ELSE runs[j]]
  IN  SelectSeq(cut, LAMBDA cell : cell.n > 0)

\* re.sub(r'\s+', ' ', title): every whitespace run becomes one space
CollapseWhitespace(t) ==
  LET one == [j \in 1..Len(t) |->
                IF ~IsSpace(t[j].c) THEN t[j]
                ELSE IF j > 1 /\ IsSpace(t[j - 1].c) THEN [c |-> " ", n |-> 0]
                ELSE [c |-> " ", n |-> 1]]
  IN  SelectSeq(one, LAMBDA cell : cell.n > 0)

\* STEP 3: join, heal hyphens, collapse whitespace, strip
CleanTitle(title_lines) ==
  Canon(Strip(CollapseWhitespace(ReplaceHyphenSpace(Join(title_lines)))))

NoTitle(verdict) ==
  [result |-> None, corrupted |-> verdict, matching |-> FALSE, lines |-> 0,
   header_idx |-> NoPos, start_idx |-> NoPos, picked |-> <<>>, stop |-> NoPos, reason |-> ""]

\* STEP 3 without the test for an empty list of title lines
TitleResultUnchecked(lines, header_idx, start_idx, got) ==
  LET title_lines == [k \in 1..Len(got.picked) |-> Strip(lines[got.picked[k] + 1])]
  IN  [result |-> CleanTitle(title_lines),
       corrupted |-> FALSE, matching |-> TRUE, lines |-> Len(lines),
       header_idx |-> header_idx, start_idx |-> start_idx,
       picked |-> got.picked, stop |-> got.stop, reason |-> got.reason]

\* STEP 3 for the lines the loop collected
TitleResult(lines, header_idx, start_idx, got) ==
  LET title_lines == [k \in 1..Len(got.picked) |-> Strip(lines[got.picked[k] + 1])]
  IN  [result |-> IF title_lines = <<>> THEN None ELSE CleanTitle(title_lines),
       corrupted |-> FALSE, matching |-> TRUE, lines |-> Len(lines),
       header_idx |-> header_idx, start_idx |-> start_idx,
       picked |-> got.picked, stop |-> got.stop, reason |-> got.reason]

\* STEP 2 from start_idx: range(start_idx, min(len(lines), start_idx + max_lines + 3))
TitleFrom(lines, header_idx, start_idx, max_lines) ==
  TitleResult(lines, header_idx, start_idx,
              Collect(lines, start_idx,
                      IF Len(lines) < start_idx + max_lines + EXTRA_LINES
                      THEN Len(lines) ELSE start_idx + max_lines + EXTRA_LINES,
                      <<>>, max_lines))

\* STEP 1.5 from the line behind the header
TitleBelowHeader(lines, header_idx, max_lines) ==
  TitleFrom(lines, header_idx, SkipBlank(lines, header_idx, 0), max_lines)

TitleOfLines(lines, max_lines) == TitleBelowHeader(lines, SkipHeader(lines, 0, 0), max_lines)

\* the title taken from all lines of the text instead of its first max_chars
TitleOfWholeText(raw, max_lines, max_chars) == TitleOfLines(SplitLines(raw), max_lines)

\* lines = raw_text[:max_chars].split('\n'), then STEPS 1 to 3
TitleBody(raw, max_lines, max_chars) ==
  TitleOfLines(SplitLines(Slice(raw, 0, max_chars)), max_lines)

\* extract_title_from_pdf as it would be without its corruption gate
UngatedTitle(raw, max_lines, max_chars) == TitleBody(raw, max_lines, max_chars)

extract_title_from_pdf(raw, max_lines, max_chars) ==
  IF _is_corrupted_text(raw, DEFAULT_SAMPLE_SIZE) THEN NoTitle(TRUE)
  ELSE TitleBody(raw, max_lines, max_chars)

-----------------------------------------------------------------------------
(* The documents.  A paper is a concatenation of segments: section         *)
(* headings, an abstract and a keywords line, prose, a references heading  *)
(* with an entry or with prose behind it.  A garbled text                  *)
(* is a concatenation of runs of letters, symbols, control characters and  *)
(* undefined bytes, as a PDF with a broken font encoding delivers them,    *)
(* with or without a small paper among them.                               *)

\* the longest paper, in segments, and the longest garbled text, in runs
MaxSegs == 2
MaxRuns == 2

\* body prose: one capitalised sentence of n characters on a line of its own
Prose(n) == Str(<<"T">>) \o Run("x", n - 3) \o Str(<<".", "\n">>)

Intro == Str(<<"1"," ","M","o","t","i","v","a","t","i","o","n","\n">>)
Quellen == Str(<<"Q","u","e","l","l","e","n","\n">>)
Entry == Str(<<"[","1","]"," ","a","\n">>)

Segments ==
  { Intro,                                        \* a Priority-1 heading
    Str(<<"1"," ","X","y","\n">>),                    \* a Priority-5 heading
    Str(<<"E","i","n","l","e","i","t","u","n","g","\n">>),    \* a Priority-2 heading
    Str(<<"S","u","m","m","a","r","y",":"," ","X","x",".","\n">>),
    Str(<<"K","e","y","w","o","r","d","s",":"," ","k","\n">>),
    Prose(40),
    Intro \o Prose(3200),                         \* a section of body text
    Quellen \o Entry,                             \* a heading and its entry
    Quellen \o Prose(1500) }                      \* a heading before prose

\* sequences of at most n elements of set
SeqsUpTo(set, n) == UNION { [1..k -> set] : k \in 0..n }

Papers == { Canon(Concat(segs)) : segs \in SeqsUpTo(Segments, MaxSegs) }

\* a paper of four lines on which every extractor finds something
SmallPaper == Intro \o Str(<<"T","x","x",".","\n">>) \o Quellen \o Entry

Runs ==
  { Run("a", 6),                                  \* letters
    Run("#", 7),                                  \* symbols
    Str(<<"^A","\f","#","#">>),                    \* two control characters in four
    Str(<<"a","1","a","1","a","1","#">>),         \* three letter-digit transitions
    Run("=", 30) \o Run(";", 30),                 \* encoding punctuation
    Str(<<"^81">>),                               \* an undefined C1 byte
    Run("a", 2000),                               \* a sample full of letters
    SmallPaper }

Garbled == { Canon(Concat(runs)) : runs \in SeqsUpTo(Runs, MaxRuns) }

\* '1 Introduction\nBody text here.\nReferences\n[AB12] Some citation.'
ScenarioA ==
  Canon(Str(<<"1"," ","I","n","t","r","o","d","u","c","t","i","o","n","\n","B","o","d","y"," ","t","e","x","t"," ","h","e","r","e",".","\n","R","e","f","e","r","e","n","c","e","s","\n","[","A","B","1","2","]"," ","S","o","m","e"," ","c","i","t","a","t","i","o","n",".">>))

\* 2200 characters of which 10% are letters
ScenarioB == Canon(Run("a", 220) \o Run("#", 1980))

\* 20 characters of which exactly 30% are letters
AtThreshold == Canon(Run("a", 6) \o Run("#", 14))

\* prose, a reference list and an appendix heading behind it
WithAppendix == Canon(Prose(40) \o Quellen \o Entry \o Str(<<"1"," ","X","y","\n">>))

\* a section of body text and two reference lists
TwoLists == Canon(Intro \o Prose(3200) \o Quellen \o Entry \o Quellen \o Entry)

\* a preamble, a section of body text and a late paragraph that opens with
\* a line of the references vocabulary
LateKeywordLine == Canon(Prose(40) \o Intro \o Prose(3200) \o Quellen \o Prose(1500))

Scenarios == {ScenarioA, ScenarioB, AtThreshold, WithAppendix, TwoLists, LateKeywordLine}

\* the longest tail of a reference list, in lines
MaxTrailers == 2

\* the lines that end a reference list: a second entry, a page number, a
\* running head with the page number in front of or behind the names, a
\* line of names, an indented page number, a blank line
Trailers ==
  { Str(<<"[","2","]"," ","b","\n">>),
    Str(<<"4","4","9","\n">>),
    Str(<<"1","2"," ","M","e","i","e","r"," ","e","t"," ","a","l",".","\n">>),
    Str(<<"M","e","i","e","r"," ","e","t"," ","a","l","."," ","1","2","\n">>),
    Str(<<"M","e","i","e","r"," ","e","t"," ","a","l",".","\n">>),
    Str(<<" ","2","1","\n">>),
    Str(<<"\n">>) }

\* prose, a references heading, an entry and the lines that end the list
RefLists ==
  { Canon(Prose(40) \o Quellen \o Entry \o Concat(tail)) : tail \in SeqsUpTo(Trailers, MaxTrailers) }

\* the longest title page, in lines
MaxLines == 2

\* the lines of a title page
TitleLines ==
  { \* two capitalised words
    Str(<<"A","d","a","p","t","i","v","e"," ","L","e","r","n","s","y","s","t","e","m","e","\n">>),
    \* a byline with a comma
    Str(<<"D","o","m","i","n","i","k"," ","N","i","e","h","u","s",","," ","P","a","t","r","i","k"," ","E","r","r","e","n","\n">>),
    \* a byline with & and affiliation markers
    Str(<<"S","v","e","n"," ","S","t","r","i","c","k","r","o","t","h","1"," ","&"," ","N","i","e","l","s"," ","P","i","n","k","w","a","r","t","2","\n">>),
    \* an affiliation
    Str(<<"H","o","c","h","s","c","h","u","l","e"," ","X","\n">>),
    \* a title line with 'und'
    Str(<<"B","a","d","g","e","s"," ","u","n","d"," ","O","p","e","n"," ","B","a","d","g","e","s","\n">>),
    \* a hyphen with two spaces behind it
    Str(<<"L","e","r","n","-"," "," ","s","y","s","t","e","m","e"," ","i","m"," ","S","t","u","d","i","u","m","\n">>),
    \* a header line
    Str(<<"A","."," ","M","e","i","e","r"," ","(","H","r","s","g",".",")",":"," ","P","r","o","c","\n">>),
    \* a page number
    Str(<<"1","2","\n">>),
    \* a line of at most five characters
    Str(<<"k","u","r","z","\n">>),
    \* a blank line
    Str(<<"\n">>) }

TitlePages == { Canon(Concat(ls)) : ls \in SeqsUpTo(TitleLines, MaxLines) }

\* 'Adaptive Lernsysteme', then 'Dominik Niehus, Patrik Erren' and 'Hochschule X'
ScenarioC ==
  Canon(Str(<<"A","d","a","p","t","i","v","e"," ","L","e","r","n","s","y","s","t","e","m","e","\n">>)
        \o Str(<<"D","o","m","i","n","i","k"," ","N","i","e","h","u","s",","," ","P","a","t","r","i","k"," ","E","r","r","e","n","\n","H","o","c","h","s","c","h","u","l","e"," ","X">>))

\* the same title and byline with two blank lines between them
SpacedByline ==
  Canon(Str(<<"A","d","a","p","t","i","v","e"," ","L","e","r","n","s","y","s","t","e","m","e","\n","\n","\n">>)
        \o Str(<<"D","o","m","i","n","i","k"," ","N","i","e","h","u","s",","," ","P","a","t","r","i","k"," ","E","r","r","e","n","\n","H","o","c","h","s","c","h","u","l","e"," ","X">>))

\* a header line, a page number, a blank line, two title lines, a byline
\* and an affiliation
HeaderedPage ==
  Canon(Str(<<"A","."," ","M","e","i","e","r"," ","(","H","r","s","g",".",")",":"," ","P","r","o","c","\n","1","2","\n","\n">>)
        \o Str(<<"B","a","d","g","e","s"," ","u","n","d"," ","O","p","e","n"," ","B","a","d","g","e","s","\n","A","d","a","p","t","i","v","e"," ","L","e","r","n","s","y","s","t","e","m","e","\n">>)
        \o Str(<<"D","o","m","i","n","i","k"," ","N","i","e","h","u","s",","," ","P","a","t","r","i","k"," ","E","r","r","e","n","\n","H","o","c","h","s","c","h","u","l","e"," ","X","\n">>))

\* a title line, a line of two names joined by 'und' without affiliation
\* markers, and a line behind it
UndWithoutMarker ==
  Canon(Str(<<"L","e","r","n","e","n"," ","i","m"," ","S","t","u","d","i","u","m","\n">>)
        \o Str(<<"P","e","t","e","r"," ","H","e","n","n","i","n","g"," ","u","n","d"," ","K","l","a","u","s"," ","M","ü","l","l","e","r","\n">>)
        \o Str(<<"H","o","c","h","s","c","h","u","l","e"," ","X","\n">>))

\* a line with 'und' and an affiliation marker that begins with no name
MarkerWithoutName ==
  Canon(Str(<<"L","e","r","n","e","n"," ","m","i","t"," ","T","o","o","l","s","2"," ","u","n","d"," ","O","p","e","n"," ","B","a","d","g","e","s","\n">>)
        \o Str(<<"H","o","c","h","s","c","h","u","l","e"," ","X","\n">>))

\* five title lines and a sixth line with 'und'
SixLineTitle ==
  Canon(Str(<<"E","r","s","t","e"," ","l","a","n","g","e"," ","Z","e","i","l","e","\n">>) \o Str(<<"Z","w","e","i","t","e"," ","l","a","n","g","e"," ","Z","e","i","l","e","\n">>)
        \o Str(<<"D","r","i","t","t","e"," ","l","a","n","g","e"," ","Z","e","i","l","e","\n">>) \o Str(<<"V","i","e","r","t","e"," ","l","a","n","g","e"," ","Z","e","i","l","e","\n">>)
        \o Str(<<"L","e","t","z","t","e"," ","l","a","n","g","e"," ","Z","e","i","l","e","\n">>)
        \o Str(<<"B","a","d","g","e","s"," ","u","n","d"," ","O","p","e","n"," ","B","a","d","g","e","s","\n">>))

TitleScenarios ==
  {ScenarioC, SpacedByline, HeaderedPage, UndWithoutMarker, MarkerWithoutName, SixLineTitle}

\* an abstract, a blank line, a paragraph and a numbered section
AbstractThenSection ==
  Canon(Str(<<"S","u","m","m","a","r","y",":"," ","X","x",".","\n","\n","A","b","c"," ","d","e","f",".","\n">>)
        \o Str(<<"1"," ","X","y","\n","T","e","x","t",".","\n">>))

\* an abstract, a blank line and two paragraphs
AbstractThenParagraphs ==
  Canon(Str(<<"S","u","m","m","a","r","y",":"," ","X","x",".","\n","\n","A","b","c"," ","d","e","f",".","\n">>)
        \o Str(<<"T","e","x","t",".","\n">>))

\* an abstract, a keywords line, a blank line, a paragraph and a numbered section
AbstractKeywordsSection ==
  Canon(Str(<<"S","u","m","m","a","r","y",":"," ","X","x",".","\n","K","e","y","w","o","r","d","s",":"," ","k","\n","\n","A","b","c"," ","d","e","f",".","\n">>)
        \o Str(<<"1"," ","X","y","\n","T","e","x","t",".","\n">>))

\* an abstract, a blank line, a paragraph in lower case and a paragraph
AbstractThenLowerCase ==
  Canon(Str(<<"S","u","m","m","a","r","y",":"," ","X","x",".","\n","\n","a","b","c"," ","d","e","f",".","\n">>)
        \o Str(<<"T","e","x","t",".","\n">>))

\* an abstract of two sentences, the second longer than the minimum abstract
\* length, and a paragraph
LongAbstract ==
  Canon(Str(<<"S","u","m","m","a","r","y",":"," ","X","x",".","\n","A","b","c"," ">>) \o Run("x", MIN_ABSTRACT_CHARS)
        \o Str(<<".","\n","T","e","x","t",".","\n">>))

\* an abstract of one short sentence and a paragraph
ShortAbstract ==
  Canon(Str(<<"S","u","m","m","a","r","y",":"," ","X","x"," ","y","y",".","\n","T","e","x","t",".","\n">>))

AbstractScenarios ==
  {AbstractThenSection, AbstractThenParagraphs, AbstractKeywordsSection, AbstractThenLowerCase,
   LongAbstract, ShortAbstract}

Documents ==
  Papers \cup Garbled \cup Scenarios \cup RefLists \cup TitlePages \cup TitleScenarios
    \cup AbstractScenarios

-----------------------------------------------------------------------------
(* The pipeline: process_pdf_without_metadata extracts title, text and     *)
(* references of a document, in this order; process_pdf_with_metadata      *)
(* makes the last two of these calls.                                      *)

NoTrace == [title |-> NoTitle(FALSE), main |-> NoMain(FALSE), refs |-> NoRefs(FALSE)]

\* no annotation run
AnnotationOff ==
  /\ pdf_list = <<>>
  /\ api = <<>>
  /\ files = <<>>
  /\ started = 0
  /\ at = "off"
  /\ run = <<>>
  /\ retry = <<>>
  /\ log = <<>>

Init ==
  /\ raw_text \in Documents
  /\ pc = "new"
  /\ corrupted = FALSE
  /\ title = None
  /\ text = None
  /\ references = None
  /\ trace = NoTrace
  /\ AnnotationOff

\* 'title': extract_title_from_pdf(raw)
ExtractTitleFromPdf ==
  /\ pc = "new"
  /\ \E r \in {extract_title_from_pdf(raw_text, DEFAULT_MAX_LINES, DEFAULT_MAX_CHARS)} :
       /\ title' = r.result
       /\ corrupted' = r.corrupted
       /\ trace' = [trace EXCEPT !.title = r]
  /\ pc' = "title"
  /\ UNCHANGED <<raw_text, text, references, avars>>

\* 'text': extract_main_content(raw)
ExtractMainContent ==
  /\ pc = "title"
  /\ \E r \in {extract_main_content(raw_text)} :
       /\ text' = r.result
       /\ corrupted' = r.corrupted
       /\ trace' = [trace EXCEPT !.main = r]
  /\ pc' = "text"
  /\ UNCHANGED <<raw_text, title, references, avars>>

\* 'references': extract_references(raw)
ExtractReferences ==
  /\ pc = "text"
  /\ \E r \in {extract_references(raw_text)} :
       /\ references' = r.result
       /\ corrupted' = r.corrupted
       /\ trace' = [trace EXCEPT !.refs = r]
  /\ pc' = "references"
  /\ UNCHANGED <<raw_text, title, text, avars>>

Next == ExtractTitleFromPdf \/ ExtractMainContent \/ ExtractReferences

Spec == Init /\ [][Next]_vars

-----------------------------------------------------------------------------
(* rwth_aachen_presentation/llm_annotation_research_software.py:           *)
(* process_pdfs and classify_pdf_with_retry, the annotation run with its   *)
(* retries, its circuit breaker and its checkpoints.  A run is a non-test  *)
(* run (test_mode is False) started as main starts it; the checkpoint      *)
(* files in results/ outlive the process, its locals do not.  Field values *)
(* are strings: "0" and "1" are the labels, "None" is Python's None, "nan" *)
(* is the NaN pandas reads from an empty cell; a file name k stands for    *)
(* the file k.pdf.                                                         *)

CHECKPOINT_FREQUENCY == 50
MAX_RETRIES == 3
RETRY_DELAY_SECONDS == 5
MAX_CONSECUTIVE_ERRORS == 10

\* the keys of the JSON schema
LabelKeys == {"label_research_software", "label_software_evaluation", "label_empirical_study"}
JustificationKeys ==
  {"label_research_software_justification", "label_software_evaluation_justification",
   "label_empirical_study_justification"}
ResultKeys == LabelKeys \cup JustificationKeys

\* LNI to year mapping, for the two folders of the model
LNI_MAPPING == [lni \in {"lni37", "lni52"} |-> IF lni = "lni37" THEN 2003 ELSE 2004]

\* the longest list of PDFs, a short list, and the number of times the
\* script is started
NumPdfs == 52
ShortList == 3
MaxStarts == 2

\* the PDFs of the second folder: the last two of the list
InSecondFolder(i, n) == i > n - 2

\* get_all_relevant_pdfs: (pdf_path, lni_folder, year) for the PDFs of the
\* folders in sorted order; with shared names the files of the second
\* folder are called as the first files of the first folder are
RelevantPdfs(n, shared) ==
  [i \in 1..n |->
     LET lni_folder == IF InSecondFolder(i, n) THEN "lni52" ELSE "lni37"
     IN  [pdf_path |-> [folder |-> lni_folder,
                        name |-> IF shared /\ InSecondFolder(i, n) THEN i - (n - 2) ELSE i],
          lni_folder |-> lni_folder,
          year |-> LNI_MAPPING[lni_folder]]]

PdfLists == { RelevantPdfs(n, shared) : n \in {ShortList, NumPdfs}, shared \in BOOLEAN }

\* the API as the run meets it: for the PDFs at positions first..last of the
\* list the first `faults` calls of classify_pdf of every classification
\* raise, every other call returns
OutageStarts == {2, CHECKPOINT_FREQUENCY - MAX_CONSECUTIVE_ERRORS + 1, NumPdfs - MAX_CONSECUTIVE_ERRORS + 1}
MaxOutage == 10

Outages ==
  { [first |-> f, last |-> f + n - 1, faults |-> k] :
      f \in OutageStarts, n \in 0..MaxOutage, k \in 1..MAX_RETRIES }

\* str(e) of the exception classify_pdf raises
ConnectionError == "Connection error."

\* json.loads(response.choices[0].message.content): a complete answer, an
\* answer that lacks keys, an answer with a label that is neither 0 nor 1
CompleteReply == [k \in ResultKeys |-> IF k \in LabelKeys THEN "1" ELSE "text"]
PartialReply ==
  [k \in {"label_research_software", "label_research_software_justification"} |->
     IF k \in LabelKeys THEN "0" ELSE "text"]
InvalidReply ==
  [k \in ResultKeys |->
     IF k = "label_software_evaluation" THEN "2" ELSE IF k \in LabelKeys THEN "0" ELSE "text"]

\* the answer of the API for a PDF, by its file name
ReplyFor(pdf_path) ==
  IF pdf_path.name % 3 = 1 THEN PartialReply
  ELSE IF pdf_path.name % 3 = 2 THEN InvalidReply
  ELSE CompleteReply

\* the position of a PDF in the list
PositionOf(list, pdf_path) == CHOOSE i \in 1..Len(list) : list[i].pdf_path = pdf_path

\* classify_pdf raises at this attempt of the classification of this PDF
Raises(list, outage, pdf_path, attempt) ==
  /\ PositionOf(list, pdf_path) \in outage.first..outage.last
  /\ attempt < outage.faults

\* "Validate response structure": every missing key is set to None
WithAllKeys(result) ==
  [k \in DOMAIN result \cup ResultKeys |-> IF k \in DOMAIN result THEN result[k] ELSE "None"]

\* "Validate binary values": a label that is not in [0, 1, None] is set to None
WithBinaryLabels(result) ==
  [k \in DOMAIN result |->
     IF k \in LabelKeys /\ result[k] \notin {"0", "1", "None"} THEN "None" ELSE result[k]]

\* the status of a result: 'success', or f"failed: {last_error}"
Success == <<"success">>
Failed(last_error) == <<"failed: ", last_error>>

\* result["status"] = "success"; return result
Validated(result) == [fields |-> WithBinaryLabels(WithAllKeys(result)), status |-> Success]

\* "All retries failed": six fields None and the status of the last error
AllFailed(last_error) == [fields |-> [k \in ResultKeys |-> "None"], status |-> Failed(last_error)]

\* "Build result record"
Record(pdf, result) ==
  [lni_edition |-> pdf.lni_folder, year |-> pdf.year, filename |-> pdf.pdf_path.name,
   fields |-> [k \in ResultKeys |-> result.fields[k]], status |-> result.status]

\* a column of the DataFrame holds floats as soon as one of its values is
\* missing or a float
IsMissing(v) == v \in {"None", "nan", ""}
IsFloat(v) == v \in {"0.0", "1.0"}
AsFloat(v) == IF v = "0" THEN "0.0" ELSE IF v = "1" THEN "1.0" ELSE v
FloatColumn(rows, k) ==
  \E j \in 1..Len(rows) : IsMissing(rows[j].fields[k]) \/ IsFloat(rows[j].fields[k])

\* pd.DataFrame(results).to_csv(path, index=False): a missing value is an
\* empty cell, a label of a float column is written as a float
to_csv(results) ==
  [j \in 1..Len(results) |->
     [results[j] EXCEPT !.fields =
        [k \in ResultKeys |->
           IF IsMissing(results[j].fields[k]) THEN ""
           ELSE IF k \in LabelKeys /\ FloatColumn(results, k) THEN AsFloat(results[j].fields[k])
           ELSE results[j].fields[k]]]]

\* pd.read_csv(path).to_dict("records"): an empty cell is NaN, a label of a
\* column with empty cells is a float
read_csv(rows) ==
  [j \in 1..Len(rows) |->
     [rows[j] EXCEPT !.fields =
        [k \in ResultKeys |->
           IF rows[j].fields[k] = "" THEN "nan"
           ELSE IF k \in LabelKeys /\ FloatColumn(rows, k) THEN AsFloat(rows[j].fields[k])
           ELSE rows[j].fields[k]]]]

\* checkpoint_path = None
NoPath == 0

\* the locals of process_pdfs (next: the PDFs of pdfs_to_process the loop
\* has taken) and of classify_pdf_with_retry, before a call and after the
\* process has ended
NoRun ==
  [results |-> <<>>, processed_files |-> {}, pdfs_to_process |-> <<>>,
   current_checkpoint_path |-> NoPath, consecutive_errors |-> 0, processed_count |-> 0,
   next |-> 0]
NoRetry == [pdf |-> <<>>, attempt |-> 0, last_error |-> "None", result |-> <<>>]

\* set(checkpoint_df["filename"].tolist())
FileNames(results) == { results[j].filename : j \in 1..Len(results) }

\* "Filter out already processed files"
NotProcessed(list, processed_files) ==
  SelectSeq(list, LAMBDA pdf : pdf.pdf_path.name \notin processed_files)

\* the locals at the head of the loop, for the records the run starts with
RunWith(list, results, path) ==
  [results |-> results, processed_files |-> FileNames(results),
   pdfs_to_process |-> NotProcessed(list, FileNames(results)),
   current_checkpoint_path |-> path, consecutive_errors |-> 0, processed_count |-> 0,
   next |-> 0]

\* "Load existing checkpoint if provided"
Loaded(disk, checkpoint_path) ==
  IF checkpoint_path # NoPath /\ checkpoint_path \in DOMAIN disk
  THEN read_csv(disk[checkpoint_path]) ELSE <<>>

\* checkpoint_df.to_csv(current_checkpoint_path, index=False)
Saved(disk, path, results) ==
  [p \in DOMAIN disk \cup {path} |-> IF p = path THEN to_csv(results) ELSE disk[p]]

\* "Track consecutive errors for circuit breaker"
ErrorsAfter(consecutive_errors, status) ==
  IF status # Success THEN consecutive_errors + 1 ELSE 0

\* the locals after 'results.append(record)', the counters included
Appended(r, record) ==
  [r EXCEPT !.results = Append(@, record),
            !.processed_count = @ + 1,
            !.consecutive_errors = ErrorsAfter(@, record.status),
            !.next = @ + 1]

\* the circuit breaker trips one failure late
BreaksBeyond(r, status) ==
  status # Success /\ r.consecutive_errors > MAX_CONSECUTIVE_ERRORS

\* the circuit breaker leaves the loop
Breaks(r, status) ==
  status # Success /\ r.consecutive_errors >= MAX_CONSECUTIVE_ERRORS

\* no checkpoint is written inside the loop
NeverInLoop(disk, r, status) == disk

\* "Save checkpoint periodically", unless the circuit breaker left the loop
AfterIteration(disk, r, status) ==
  IF ~Breaks(r, status) /\ r.processed_count % CHECKPOINT_FREQUENCY = 0
  THEN Saved(disk, r.current_checkpoint_path, r.results)
  ELSE disk

TextOff ==
  /\ raw_text = <<>>
  /\ pc = "off"
  /\ corrupted = FALSE
  /\ title = None
  /\ text = None
  /\ references = None
  /\ trace = NoTrace

InitAnnotation ==
  /\ pdf_list \in PdfLists
  /\ api \in Outages
  /\ files = <<>>
  /\ started = 0
  /\ at = "idle"
  /\ run = NoRun
  /\ retry = NoRetry
  /\ log = <<>>
  /\ TextOff

\* process_pdfs up to its loop: without an API key it raises ValueError;
\* the checkpoint file of the run is named by the minute of its start
ProcessPdfs ==
  /\ at \in {"idle", "killed", "returned", "raised"}
  /\ started < MaxStarts
  /\ \E checkpoint_path \in {NoPath} \cup 1..MaxStarts, openai_api_key \in BOOLEAN :
       IF ~openai_api_key
       THEN at' = "raised" /\ run' = NoRun
       ELSE /\ at' = "loop"
            /\ run' = RunWith(pdf_list, Loaded(files, checkpoint_path), started + 1)
  /\ started' = started + 1
  /\ retry' = NoRetry
  /\ log' = <<>>
  /\ UNCHANGED <<pdf_list, api, files, tvars>>

\* 'for pdf_path, lni_folder, year in pbar' takes the next PDF and calls
\* classify_pdf_with_retry
ClassifyPdfWithRetry ==
  /\ at = "loop"
  /\ run.next < Len(run.pdfs_to_process)
  /\ retry' = [NoRetry EXCEPT !.pdf = run.pdfs_to_process[run.next + 1]]
  /\ log' = <<>>
  /\ at' = "attempt"
  /\ UNCHANGED <<pdf_list, api, files, started, run, tvars>>

\* an attempt of 'for attempt in range(max_retries)' whose call of
\* classify_pdf returns: the result is validated and returned
ClassifyPdfReturns ==
  /\ at = "attempt"
  /\ retry.attempt < MAX_RETRIES
  /\ ~Raises(pdf_list, api, retry.pdf.pdf_path, retry.attempt)
  /\ retry' = [retry EXCEPT !.result = Validated(ReplyFor(retry.pdf.pdf_path))]
  /\ log' = Append(log, "return")
  /\ at' = "classified"
  /\ UNCHANGED <<pdf_list, api, files, started, run, tvars>>

\* the wait before the next attempt is left out
RetriesAtOnce(attempt, max_retries) == FALSE

\* 'if attempt < max_retries - 1': a wait follows a failed attempt
WaitsAfter(attempt, max_retries) == attempt < max_retries - 1

\* an attempt whose call of classify_pdf raises: 'except Exception as e'
ClassifyPdfRaises ==
  /\ at = "attempt"
  /\ retry.attempt < MAX_RETRIES
  /\ Raises(pdf_list, api, retry.pdf.pdf_path, retry.attempt)
  /\ log' = Append(log, "raise")
  /\ IF WaitsAfter(retry.attempt, MAX_RETRIES)
     THEN /\ at' = "sleep"
          /\ retry' = [retry EXCEPT !.last_error = ConnectionError]
     ELSE /\ at' = "attempt"
          /\ retry' = [retry EXCEPT !.last_error = ConnectionError, !.attempt = @ + 1]
  /\ UNCHANGED <<pdf_list, api, files, started, run, tvars>>

\* time.sleep(RETRY_DELAY_SECONDS), then the next attempt
Sleep ==
  /\ at = "sleep"
  /\ log' = Append(log, "sleep")
  /\ retry' = [retry EXCEPT !.attempt = @ + 1]
  /\ at' = "attempt"
  /\ UNCHANGED <<pdf_list, api, files, started, run, tvars>>

\* "All retries failed"
AllRetriesFailed ==
  /\ at = "attempt"
  /\ retry.attempt >= MAX_RETRIES
  /\ retry' = [retry EXCEPT !.result = AllFailed(retry.last_error)]
  /\ at' = "classified"
  /\ UNCHANGED <<pdf_list, api, files, started, run, log, tvars>>

\* the rest of the loop body: the record, the counters, the circuit breaker
\* and the periodic checkpoint
RecordResult ==
  /\ at = "classified"
  /\ run' = Appended(run, Record(retry.pdf, retry.result))
  /\ files' = AfterIteration(files, run', retry.result.status)
  /\ at' = IF Breaks(run', retry.result.status) THEN "break" ELSE "loop"
  /\ UNCHANGED <<pdf_list, api, started, retry, log, tvars>>

\* "Final save", after the last PDF or after the circuit breaker
FinalSave ==
  /\ \/ at = "break"
     \/ at = "loop" /\ run.next >= Len(run.pdfs_to_process)
  /\ files' = Saved(files, run.current_checkpoint_path, run.results)
  /\ at' = "returned"
  /\ UNCHANGED <<pdf_list, api, started, run, retry, log, tvars>>

\* the process is killed between two iterations: its locals are gone, the
\* files stay
Interrupt ==
  /\ at = "loop"
  /\ at' = "killed"
  /\ run' = NoRun
  /\ retry' = NoRetry
  /\ log' = <<>>
  /\ UNCHANGED <<pdf_list, api, files, started, tvars>>

NextAnnotation ==
  \/ ProcessPdfs
  \/ ClassifyPdfWithRetry
  \/ ClassifyPdfReturns
  \/ ClassifyPdfRaises
  \/ Sleep
  \/ AllRetriesFailed
  \/ RecordResult
  \/ FinalSave
  \/ Interrupt

SpecAnnotation == InitAnnotation /\ [][NextAnnotation]_vars

-----------------------------------------------------------------------------
(* The claims of the specification, settled against the model.             *)

\* C1: the corruption gate.  On every text that _is_corrupted_text finds
\* corrupted, each call made so far (extract_title_from_pdf,
\* extract_main_content, extract_references) returned None and ran none of
\* its title, section or heading matching; the 2200-character text with 10%
\* letters is such a text.
C1_CorruptionGate ==
  /\ raw_text = ScenarioB => _is_corrupted_text(raw_text, DEFAULT_SAMPLE_SIZE)
  /\ (pc # "new" /\ _is_corrupted_text(raw_text, DEFAULT_SAMPLE_SIZE)) =>
       /\ title = None /\ ~trace.title.matching
       /\ pc \in {"text", "references"} => text = None /\ ~trace.main.matching
       /\ pc = "references" => references = None /\ ~trace.refs.matching

\* a corrupted text that holds a paper, on which each of the three matchers
\* would have found something, after all three calls returned None
C1_GatedPaper ==
  /\ pc = "references"
  /\ _is_corrupted_text(raw_text, DEFAULT_SAMPLE_SIZE)
  /\ title = None /\ text = None /\ references = None
  /\ TitleBody(raw_text, DEFAULT_MAX_LINES, DEFAULT_MAX_CHARS).result # None
  /\ MainContentBody(raw_text).result # None
  /\ ReferencesBody(raw_text).result # None

\* a second sample size, below the length of most documents
SmallSample == 13

\* the verdict as C2 words it, on the counts of the sample text[:sample_size]
C2_Verdict(t, sample_size) ==
  LET sample == Slice(t, 0, sample_size)
      n == TextLen(sample)
  IN  \/ TextLen(t) = 0
      \/ 10 * CountAlpha(sample) < 3 * n
      \/ 5 * CountIf(sample, {"^A", "\f"}) > n
      \/ 20 * Len(FindIter(TransitionPattern, sample, FALSE)) > 3 * n
      \/ \E j \in 1..Len(sample) : sample[j].c \in {"^81", "^8D", "^8F", "^90", "^9D"}
      \/ 100 * CountIf(sample, {"=", ";"}) > 3 * n

PriorityPos(k, t) ==
  CASE k = 1 -> Priority1(t)
    [] k = 2 -> Priority2(t)
    [] k = 3 -> Priority3(t).pos
    [] k = 4 -> Priority4(t)
    [] k = 5 -> Priority5(t)

\* the offsets at which a Priority-1 pattern matches in t
P1Offsets(t) ==
  UNION { { ms[j].start : j \in 1..Len(ms) } :
          ms \in { FindIter(patterns_priority_1[k], t, TRUE) : k \in 1..Len(patterns_priority_1) } }

\* C3: the start offset of extract_main_content comes from an ordered
\* first-match-wins cascade: the priority that decided the start is the
\* first of Priorities 1 to 5 that finds anything, the start is what it
\* finds, no later priority was evaluated, and whenever a Priority-1
\* pattern matches anywhere the start is the offset of a Priority-1 match,
\* whatever the lower priorities match.
C3_OrderedCascade ==
  (pc = "text" /\ ~corrupted) =>
    LET m == trace.main IN
    /\ m.prio \in 1..5 =>
         /\ \A k \in 1..m.prio - 1 : PriorityPos(k, raw_text) = NoPos
         /\ m.start_pos = PriorityPos(m.prio, raw_text)
         /\ m.start_pos # NoPos
         /\ m.tried = 1..m.prio
    /\ m.prio = 0 => \A k \in 1..5 : PriorityPos(k, raw_text) = NoPos
    /\ P1Offsets(raw_text) # {} => m.prio = 1 /\ m.start_pos \in P1Offsets(raw_text)

\* a text in which a Priority-5 heading stands before the Priority-1
\* heading, and the main content starts at the Priority-1 heading
C3_LowerPriorityEarlier ==
  /\ pc = "text"
  /\ ~corrupted
  /\ trace.main.prio = 1
  /\ Priority5(raw_text) # NoPos
  /\ Priority5(raw_text) < trace.main.start_pos
  /\ text # None

\* C4: whenever extract_main_content returns a value, the start and end
\* offsets it computed satisfy 0 <= start <= end <= len(text) and the value
\* is text[start:end].
C4_StartEndOrdered ==
  (pc = "text" /\ text # None) =>
    LET m == trace.main IN
    /\ 0 <= m.start_pos
    /\ m.start_pos <= m.end_pos
    /\ m.end_pos <= TextLen(raw_text)
    /\ text = Slice(raw_text, m.start_pos, m.end_pos)

CitationWithin(t, e) ==
  LET last == IF e + 1500 < TextLen(t) THEN e + 1500 ELSE TextLen(t)
      following == Slice(t, e, last)
  IN  \E k \in 1..4 : Search(REFERENCE_PATTERNS[k], following, FALSE) # NoMatch

\* the lines matching the references vocabulary in the last half of t
HeadingLines(t) ==
  LET ms == FindIter(pattern_refs_start, t, TRUE)
  IN  { ms[j] : j \in { i \in 1..Len(ms) : ms[i].start >= TextLen(t) \div 2 } }

\* C6: a heading candidate is selected by extract_main_content and by
\* extract_references only if one of the four citation-entry shapes occurs in
\* the 1500 characters after the candidate's end, and extract_references
\* returns None when no candidate is followed by such a shape.
C6_HeadingNeedsCitation ==
  /\ trace.main.heading # NoMatch => CitationWithin(raw_text, trace.main.heading.end)
  /\ trace.refs.heading # NoMatch => CitationWithin(raw_text, trace.refs.heading.end)
  /\ (pc = "references" /\ ~corrupted
      /\ \A c \in HeadingLines(raw_text) : ~CitationWithin(raw_text, c.end))
       => (references = None /\ trace.refs.heading = NoMatch /\ trace.main.heading = NoMatch)

\* a vocabulary line in the last half followed by 1500 characters of prose
\* is passed over: no references, and the main content runs to the end
C6_ProseAfterHeading ==
  /\ pc = "references"
  /\ trace.main.start_pos # NoPos
  /\ HeadingLines(raw_text) # {}
  /\ \A c \in HeadingLines(raw_text) : ~CitationWithin(raw_text, c.end)
  /\ references = None
  /\ trace.main.end_pos = TextLen(raw_text)

\* the heading lines of the last half that pass validation
ValidatedLines(t) == { c \in HeadingLines(t) : CitationWithin(t, c.end) }

\* the heading of greatest offset among the validated ones
IsLastValidated(t, heading) ==
  /\ heading \in ValidatedLines(t)
  /\ \A c \in ValidatedLines(t) : c.start <= heading.start

\* C7: among the heading candidates of the last half that pass validation,
\* the one with the greatest offset is the selected heading, in
\* extract_references and (once a start offset is found) in
\* extract_main_content.
C7_LastCandidatePreferred ==
  (pc = "references" /\ ~corrupted /\ ValidatedLines(raw_text) # {}) =>
     /\ IsLastValidated(raw_text, trace.refs.heading)
     /\ trace.main.start_pos # NoPos => IsLastValidated(raw_text, trace.main.heading)

\* two validated headings: the later one ends the main content and begins
\* the references
C7_TwoValidatedHeadings ==
  /\ pc = "references"
  /\ trace.main.start_pos # NoPos
  /\ Cardinality(ValidatedLines(raw_text)) >= 2
  /\ trace.refs.heading \in ValidatedLines(raw_text)
  /\ \E c \in ValidatedLines(raw_text) : c.start < trace.refs.heading.start
  /\ trace.main.end_pos = trace.refs.heading.start

\* the lines matching the references vocabulary that start in the first half
\* of t and are followed by a citation entry
EarlyValidLines(t) ==
  LET ms == FindIter(pattern_refs_start, t, TRUE)
  IN  { ms[j] : j \in { i \in 1..Len(ms) : /\ ms[i].start < TextLen(t) \div 2
                                           /\ CitationWithin(t, ms[i].end) } }

\* C8: the selected references heading starts at an offset of at least
\* floor(len(text) * 0.50); a keyword line in the first half is never the
\* heading, and when it is the only one the text has no references block and
\* its main content is not truncated.
C8_HeadingInLastHalf ==
  /\ trace.main.heading # NoMatch
       => trace.main.heading.start >= TextLen(raw_text) \div 2
  /\ trace.refs.heading # NoMatch
       => trace.refs.heading.start >= TextLen(raw_text) \div 2
  /\ (pc = "references" /\ ~corrupted /\ HeadingLines(raw_text) = {})
       => /\ references = None
          /\ trace.main.start_pos # NoPos
               => text = Slice(raw_text, trace.main.start_pos, TextLen(raw_text))

\* a keyword line with a citation entry behind it, in the first half only
C8_EarlyHeadingIgnored ==
  /\ pc = "references"
  /\ ~corrupted
  /\ EarlyValidLines(raw_text) # {}
  /\ HeadingLines(raw_text) = {}
  /\ references = None
  /\ trace.main.start_pos # NoPos
  /\ \E c \in EarlyValidLines(raw_text) : trace.main.start_pos < c.start
  /\ trace.main.end_pos = TextLen(raw_text)

\* C9: when a start offset is found and no references heading validates,
\* extract_main_content ends at len(text) and returns the suffix text[start:].
C9_NoHeadingWholeSuffix ==
  (pc = "text" /\ ~corrupted /\ trace.main.start_pos # NoPos
   /\ ValidatedLines(raw_text) = {})
    => /\ trace.main.end_pos = TextLen(raw_text)
       /\ text = Slice(raw_text, trace.main.start_pos, TextLen(raw_text))
       /\ TextLen(text) = TextLen(raw_text) - trace.main.start_pos

\* a start offset behind the beginning of the text, and a keyword line in
\* the last half that no citation entry follows
C9_UnvalidatedHeadingKept ==
  /\ pc = "text"
  /\ trace.main.start_pos > 0
  /\ HeadingLines(raw_text) # {}
  /\ ValidatedLines(raw_text) = {}
  /\ \E c \in HeadingLines(raw_text) : trace.main.start_pos < c.start
  /\ text = Slice(raw_text, trace.main.start_pos, TextLen(raw_text))

\* the text after offset e without its leading and trailing whitespace
StrippedAfter(t, e) == Canon(Strip(Slice(t, e, TextLen(t))))

MainOfScenarioA ==
  Canon(Str(<<"1"," ","I","n","t","r","o","d","u","c","t","i","o","n","\n","B","o","d","y"," ","t","e","x","t"," ","h","e","r","e",".","\n">>))

ReferencesOfScenarioA ==
  Canon(Str(<<"[","A","B","1","2","]"," ","S","o","m","e"," ","c","i","t","a","t","i","o","n",".">>))

\* C10: with a start offset s in front of the selected heading [h_start, h_end),
\* extract_main_content returns text[s:h_start] unchanged and
\* extract_references returns the stripped text after h_end without its
\* trailing page line (a stripped prefix of that text, the whole of it when no
\* trailing-line pattern matches); scenario A yields
\* '1 Introduction\nBody text here.\n' and '[AB12] Some citation.'.
C10_MainAndReferences ==
  /\ (pc = "references" /\ trace.main.heading # NoMatch
      /\ trace.main.start_pos <= trace.main.heading.start)
       => LET h == trace.main.heading
              after == StrippedAfter(raw_text, h.end)
          IN  /\ trace.refs.heading = h
              /\ text = Slice(raw_text, trace.main.start_pos, h.start)
              /\ TextLen(text) = h.start - trace.main.start_pos
              /\ references = TrimTrailing(after).value
              /\ references = Slice(after, 0, TextLen(references))
              /\ references = Canon(Strip(references))
              /\ trace.refs.trim = "" => references = after
  /\ (pc = "references" /\ raw_text = ScenarioA)
       => text = MainOfScenarioA /\ references = ReferencesOfScenarioA

\* scenario A after both extractions
C10_ScenarioAExtracted ==
  /\ pc = "references"
  /\ raw_text = ScenarioA
  /\ trace.main.start_pos = 0
  /\ trace.main.heading # NoMatch
  /\ trace.main.heading.start = 31 /\ trace.main.heading.end = 41
  /\ text = MainOfScenarioA
  /\ references = ReferencesOfScenarioA

\* the lines of t that are not blank, each without its trailing whitespace
LinesOf(t) ==
  LET lines == SplitLines(t)
      stripped == [k \in 1..Len(lines) |-> Canon(RStrip(lines[k]))]
  IN  SelectSeq(stripped, LAMBDA l : Strip(l) # <<>>)

\* C11: extract_references removes at most one line from the stripped block
\* behind the heading, the final one, and only when pattern A, B or C matched;
\* the lines before it are returned as they are, and when no pattern matches
\* the stripped block is returned whole.
C11_OnlyFinalLineRemoved ==
  (pc = "references" /\ references # None) =>
    LET block == LinesOf(trace.refs.block)
        kept == LinesOf(references)
    IN  /\ Len(kept) <= Len(block)
        /\ Len(kept) >= Len(block) - 1
        /\ kept = SubSeq(block, 1, Len(kept))
        /\ trace.refs.trim = "" => references = trace.refs.block
        /\ trace.refs.trim # "" => Len(kept) = Len(block) - 1

\* the lines extract_title_from_pdf works on: raw_text[:max_chars].split('\n')
TitleWindow(t) == SplitLines(Slice(t, 0, DEFAULT_MAX_CHARS))

\* two capitalised words and no institution keyword
SingleAuthorShape(line_stripped) ==
  /\ Match(author_pattern_single, line_stripped, FALSE) # NoMatch
  /\ ~HasInstitutionKeyword(line_stripped)

\* the lines behind line i that are not blank
NonEmptyAfter(lines, i) == { j \in i + 1..Len(lines) - 1 : Strip(lines[j + 1]) # <<>> }

\* the next non-empty line behind line i is a byline of several authors
BylineFollows(lines, i) ==
  /\ NonEmptyAfter(lines, i) # {}
  /\ LET j == CHOOSE j \in NonEmptyAfter(lines, i) : \A h \in NonEmptyAfter(lines, i) : j <= h
     IN  has_comma(Strip(lines[j + 1])) \/ has_und(Strip(lines[j + 1]))

\* the lines the collecting loop looked at
Visited(tr) ==
  { i \in tr.start_idx..tr.stop : i < tr.lines /\ (i < tr.stop \/ tr.reason # "end") }

AdaptiveLernsysteme ==
  Canon(Str(<<"A","d","a","p","t","i","v","e"," ","L","e","r","n","s","y","s","t","e","m","e">>))

\* C12: a line of single-author shape that the collecting loop reaches is
\* kept as a title line whenever the next non-empty line is a byline of
\* several authors, and otherwise it is the author line at which collection
\* stops; scenario C yields 'Adaptive Lernsysteme'.
C12_SingleNameBeforeByline ==
  /\ (pc = "title" /\ ~corrupted) =>
       LET tr == trace.title
           lines == TitleWindow(raw_text)
       IN  \A i \in Visited(tr) :
             SingleAuthorShape(Strip(lines[i + 1])) =>
               IF BylineFollows(lines, i)
               THEN \E k \in 1..Len(tr.picked) : tr.picked[k] = i
               ELSE tr.stop = i /\ tr.reason = "single"
  /\ (pc = "title" /\ raw_text = ScenarioC) => title = AdaptiveLernsysteme

\* the lines skipped as header: a header line or a page number among the
\* first five lines, with nothing but blank lines and such lines before it
HeaderLines(lines) ==
  LET scanned == { i \in 0..Len(lines) - 1 : i < HEADER_SCAN_LINES }
      IsHeaderLine(i) == is_header(Strip(lines[i + 1])) \/ is_page_number(Strip(lines[i + 1]))
  IN  { i \in scanned : /\ IsHeaderLine(i)
                        /\ \A h \in 0..i - 1 : Strip(lines[h + 1]) = <<>> \/ IsHeaderLine(h) }

\* the lines from start_idx on that an author pattern recognises
AuthorLines(lines, start_idx) ==
  { i \in start_idx..Len(lines) - 1 : Strip(lines[i + 1]) # <<>> /\ AuthorLine(lines, i) # "" }

\* C13: extract_title_from_pdf walks the lines one way, SKIPPING_HEADER up
\* to header_idx, SKIPPING_BLANK up to start_idx, COLLECTING_TITLE up to
\* stop, STOPPED from there: the three indices are ordered, every collected
\* line lies in the collecting range, behind every header line and every
\* skipped blank line and in front of every author line, and the title is
\* the collected lines joined in document order.
C13_OneWayWalk ==
  (pc = "title" /\ ~corrupted) =>
    LET tr == trace.title
        lines == TitleWindow(raw_text)
        collected == [k \in 1..Len(tr.picked) |-> Strip(lines[tr.picked[k] + 1])]
    IN  /\ 0 <= tr.header_idx /\ tr.header_idx <= tr.start_idx
        /\ tr.start_idx <= tr.stop /\ tr.stop <= Len(lines)
        /\ \A i \in tr.header_idx..tr.start_idx - 1 : Strip(lines[i + 1]) = <<>>
        /\ \A k \in 1..Len(tr.picked) :
             /\ tr.start_idx <= tr.picked[k] /\ tr.picked[k] < tr.stop
             /\ \A h \in HeaderLines(lines) : h < tr.picked[k]
             /\ \A a \in AuthorLines(lines, tr.start_idx) : tr.picked[k] < a
        /\ \A k \in 1..Len(tr.picked) - 1 : tr.picked[k] < tr.picked[k + 1]
        /\ title = IF collected = <<>> THEN None ELSE CleanTitle(collected)

\* a page with header lines, a blank line, two title lines, a byline and a
\* line behind the byline: all four states are passed through
C13_HeaderTitleByline ==
  /\ pc = "title"
  /\ ~corrupted
  /\ 0 < trace.title.header_idx
  /\ trace.title.header_idx < trace.title.start_idx
  /\ Len(trace.title.picked) = 2
  /\ trace.title.reason = "commas"
  /\ trace.title.stop + 1 < trace.title.lines
  /\ title # None

\* a non-empty line of at most 5 characters or of digits only
IsStrayLine(line_stripped) ==
  /\ line_stripped # <<>>
  /\ (TextLen(line_stripped) <= 5 \/ IsDigitText(line_stripped))

\* the stray lines the collecting loop looked at
StrayVisited(tr, lines) == { i \in Visited(tr) : IsStrayLine(Strip(lines[i + 1])) }

\* C14 as stated: title accumulation stops at the first non-empty line of
\* at most 5 characters or of digits only; no line behind such a line is
\* part of the title.
C14_StopsAtStrayLine ==
  (pc = "title" /\ ~corrupted) =>
    LET tr == trace.title
    IN  \A i \in StrayVisited(tr, TitleWindow(raw_text)) :
          \A k \in 1..Len(tr.picked) : tr.picked[k] < i

\* C14 amended: a non-empty line of at most 5 characters or of digits only is
\* never part of the title, and it does not end the accumulation: unless it
\* is an author line or the line limit is reached, the loop goes on behind
\* it.
C14_StrayLineLeftOut ==
  (pc = "title" /\ ~corrupted) =>
    LET tr == trace.title
        lines == TitleWindow(raw_text)
    IN  /\ \A k \in 1..Len(tr.picked) : ~IsStrayLine(Strip(lines[tr.picked[k] + 1]))
        /\ \A i \in StrayVisited(tr, lines) :
             (AuthorLine(lines, i) = "" /\ Len(tr.picked) < DEFAULT_MAX_LINES) => i < tr.stop

\* a line of four characters, and a title made of the line behind it
C14_TitleBehindStrayLine ==
  /\ pc = "title"
  /\ ~corrupted
  /\ title # None
  /\ \E i \in StrayVisited(trace.title, TitleWindow(raw_text)) :
       \E k \in 1..Len(trace.title.picked) : i < trace.title.picked[k]

\* a second max_lines and a second max_chars, below the defaults
SmallMaxLines == 1
SmallMaxChars == 30

\* r, the outcome of the title extraction from a clean raw with the limits
\* max_lines and max_chars, is made of at most max_lines lines, each a line
\* of raw[:max_chars], and is the outcome for raw[:max_chars] alone
TitleWithinLimits(raw, r, max_lines, max_chars) ==
  LET window == Slice(raw, 0, max_chars)
      lines == SplitLines(window)
      collected == [k \in 1..Len(r.picked) |-> Strip(lines[r.picked[k] + 1])]
  IN  /\ Len(r.picked) <= max_lines
      /\ r.lines = Len(lines)
      /\ \A k \in 1..Len(r.picked) : r.picked[k] < Len(lines)
      /\ r.result = IF collected = <<>> THEN None ELSE CleanTitle(collected)
      /\ r.result # None => TextLen(r.result) <= max_chars
      /\ r.result = TitleBody(window, max_lines, max_chars).result

\* C15: the title returned by extract_title_from_pdf is assembled from at
\* most max_lines lines, all of them lines of the first max_chars characters
\* of the text, for the defaults (5, 800) and for smaller positive limits.
C15_TitleWithinLimits ==
  (pc = "title" /\ ~corrupted) =>
    /\ title = trace.title.result
    /\ TitleWithinLimits(raw_text, trace.title, DEFAULT_MAX_LINES, DEFAULT_MAX_CHARS)
    /\ TitleWithinLimits(raw_text,
                         extract_title_from_pdf(raw_text, SmallMaxLines, SmallMaxChars),
                         SmallMaxLines, SmallMaxChars)

\* a text longer than the small window whose second title line is cut by the
\* window and left out by the small max_lines
C15_BothLimitsBite ==
  /\ pc = "title"
  /\ ~corrupted
  /\ TextLen(raw_text) > SmallMaxChars
  /\ LET r == extract_title_from_pdf(raw_text, SmallMaxLines, SmallMaxChars)
     IN  /\ Len(r.picked) = SmallMaxLines
         /\ r.reason = "limit"
         /\ r.result # title

\* a hyphen immediately followed by a space
HasHyphenSpace(t) == \E j \in 1..Len(t) - 1 : t[j].c = "-" /\ t[j + 1].c = " "

\* a run of two or more whitespace characters
HasWhitespaceRun(t) ==
  \/ \E j \in 1..Len(t) : IsSpace(t[j].c) /\ t[j].n > 1
  \/ \E j \in 1..Len(t) - 1 : IsSpace(t[j].c) /\ IsSpace(t[j + 1].c)

\* C16: the returned title contains no hyphen immediately followed by a
\* space and no run of two or more whitespace characters, whatever hyphens
\* and whitespace the collected lines contained.
C16_HyphensHealed ==
  (pc = "title" /\ title # None) => ~HasHyphenSpace(title) /\ ~HasWhitespaceRun(title)

\* a clean text in which no priority finds a start and no line matches the
\* references vocabulary
PlainProse == Canon(Prose(40))

\* a clean text whose first line is the author line: no title line is collected
BylineOnly ==
  Canon(Str(<<"D","o","m","i","n","i","k"," ","N","i","e","h","u","s",","," ","P","a","t","r","i","k"," ","E","r","r","e","n","\n">>))

\* what each function returns for a clean input on which no pattern is found
MainNotFound == extract_main_content(PlainProse)
RefsNotFound == extract_references(PlainProse)
TitleNotFound == extract_title_from_pdf(BylineOnly, DEFAULT_MAX_LINES, DEFAULT_MAX_CHARS)

\* C17: for each extraction function what is returned for a corrupted input
\* differs from what is returned for a clean input on which no pattern was
\* found, and both differ from a successful extraction.
C17_OutcomesDistinct ==
  /\ ~MainNotFound.corrupted /\ MainNotFound.start_pos = NoPos
  /\ ~RefsNotFound.corrupted /\ RefsNotFound.heading = NoMatch
  /\ ~TitleNotFound.corrupted /\ TitleNotFound.picked = <<>>
  /\ (pc = "title" /\ corrupted) => title # TitleNotFound.result
  /\ (pc = "text" /\ corrupted) => text # MainNotFound.result
  /\ (pc = "references" /\ corrupted) => references # RefsNotFound.result
  /\ (pc = "title" /\ ~corrupted /\ trace.title.picked # <<>>)
       => title # TitleNotFound.result
  /\ (pc = "text" /\ ~corrupted /\ trace.main.start_pos # NoPos)
       => text # MainNotFound.result
  /\ (pc = "references" /\ ~corrupted /\ trace.refs.heading # NoMatch)
       => references # RefsNotFound.result

\* what may follow the leading characters of a text: symbols, letters, an
\* undefined byte
Tails == { Run("#", 3000), Run("a", 3000), Str(<<"^81">>) }

\* the texts that agree with t on their first sample_size characters
SameLeading(t, sample_size) ==
  { Canon(Slice(t, 0, sample_size) \o tail) : tail \in Tails }

\* C19: the verdict of _is_corrupted_text depends only on the leading
\* sample_size characters: a text of at least sample_size characters gets
\* the verdict of every text with the same leading sample_size characters,
\* for the default sample size, on which the extraction functions are gated,
\* and for a small one.
C19_LeadingSampleDecides ==
  /\ (pc # "new" /\ TextLen(raw_text) >= DEFAULT_SAMPLE_SIZE) =>
       \A other \in SameLeading(raw_text, DEFAULT_SAMPLE_SIZE) :
          corrupted = _is_corrupted_text(other, DEFAULT_SAMPLE_SIZE)
  /\ (pc = "title" /\ TextLen(raw_text) >= SmallSample) =>
       \A other \in SameLeading(raw_text, SmallSample) :
          _is_corrupted_text(other, SmallSample) = _is_corrupted_text(raw_text, SmallSample)

\* a text found clean on its first 2000 characters, with an undefined byte
\* behind them that would make any sample containing it corrupted
C19_GarbageBehindSample ==
  /\ pc = "references"
  /\ ~corrupted
  /\ TextLen(raw_text) > DEFAULT_SAMPLE_SIZE
  /\ SampleIsCorrupted(raw_text)

\* what strategy k of Priority 3 alone finds below the abstract heading that
\* ends at abstract_end: an offset, or NoPos
AbstractStrategy(k, remaining, abstract_end) ==
  CASE k = 1 -> StartFrom(abstract_end, FirstMatching(patterns_numbered, 1, remaining, FALSE))
    [] k = 2 -> Start1From(abstract_end, Search(pattern_next_para, remaining, TRUE))
    [] k = 3 -> AbstractParaBreak(remaining, abstract_end)

\* the strategies of Priority 3 that find something in t
StrategiesMatching(t) ==
  LET match == Search(pattern_abstract, t, TRUE)
  IN  IF match = NoMatch THEN {}
      ELSE { k \in 1..3 :
               AbstractStrategy(k, Slice(t, match.end, TextLen(t)), match.end) # NoPos }

\* the offset found by the first strategy of Priority 3 that finds one
FirstStrategyPos(t) ==
  LET match == Search(pattern_abstract, t, TRUE)
      k == CHOOSE k \in StrategiesMatching(t) : \A h \in StrategiesMatching(t) : k <= h
  IN  AbstractStrategy(k, Slice(t, match.end, TextLen(t)), match.end)

HasKeywordsHeading(t) == Search(pattern_has_keywords, t, TRUE) # NoMatch

\* C20: Priority 3 decides the start only in a text with an abstract heading
\* and without a keywords heading, and then by the first of its strategies
\* (numbered heading, blank-line paragraph break, period-newline-capital)
\* that matches; in a text with a keywords heading in which Priorities 1 and
\* 2 fail the start is what Priority 4 finds or, failing that, Priority 5,
\* whatever the strategies of Priority 3 would find.
C20_AbstractOnlyWithoutKeywords ==
  (pc = "text" /\ ~corrupted) =>
    LET m == trace.main IN
    /\ m.prio = 3 =>
         /\ ~HasKeywordsHeading(raw_text)
         /\ StrategiesMatching(raw_text) # {}
         /\ m.start_pos = FirstStrategyPos(raw_text)
    /\ (~HasKeywordsHeading(raw_text) /\ StrategiesMatching(raw_text) # {}) => m.prio \in 1..3
    /\ (HasKeywordsHeading(raw_text) /\ Priority1(raw_text) = NoPos /\ Priority2(raw_text) = NoPos) =>
         /\ m.prio \in {0, 4, 5}
         /\ m.start_pos = PosOr(Priority4(raw_text), Priority5(raw_text))

\* an abstract and a keywords heading: the strategies below the abstract
\* would find a start, and the start is the one Priority 4 finds
C20_KeywordsBypassAbstract ==
  /\ pc = "text"
  /\ ~corrupted
  /\ HasKeywordsHeading(raw_text)
  /\ StrategiesMatching(raw_text) # {}
  /\ trace.main.prio = 4
  /\ trace.main.start_pos # FirstStrategyPos(raw_text)
  /\ text # None

-----------------------------------------------------------------------------
(* Priority 3, strategies 2 and 3.                                         *)

\* text[k]
CharAtOffset(t, k) == Slice(t, k, k + 1)[1].c

RECURSIVE CountChar(_, _)
\* text.count(ch)
CountChar(t, ch) ==
  IF t = <<>> THEN 0
  ELSE (IF t[1].c = ch THEN t[1].n ELSE 0) + CountChar(Tail(t), ch)

\* the whitespace that ends text[a:k]
WhitespaceBefore(t, a, k) ==
  Slice(t, a + TextLen(RStrip(Slice(t, a, k))), k)

\* the strategy of Priority 3 that decided the start of t (0: none did)
DecidingStrategy(t) == Priority3(t).strategy

\* C21: when the blank-line strategy of Priority 3 decides the start, the
\* start is the offset of an upper-case letter (A-Z, Ä, Ö, Ü) that follows a
\* blank line below the abstract heading, and no keywords-heading word begins
\* there; a paragraph that begins with a lower-case letter is never chosen.
C21_CapitalAfterBlankLine ==
  (pc = "text" /\ ~corrupted /\ trace.main.prio = 3 /\ DecidingStrategy(raw_text) = 2) =>
    LET abstract_end == Search(pattern_abstract, raw_text, TRUE).end
        k == trace.main.start_pos
    IN  /\ k > abstract_end
        /\ CountChar(WhitespaceBefore(raw_text, abstract_end, k), "\n") >= 2
        /\ Match(KeywordsWords, Slice(raw_text, k, TextLen(raw_text)), TRUE) = NoMatch
        /\ CharAtOffset(raw_text, k) \in UpperAZ \cup UpperUml

\* the period-newline-capital transitions of remaining, each by the offset
\* of its period and of its capital letter
Transitions(remaining) ==
  LET ms == FindIter(pattern_para_break, remaining, FALSE)
  IN  { [period |-> ms[k].start, capital |-> Start1(ms[k])] : k \in 1..Len(ms) }

\* the transitions that lie beyond the minimum abstract length
TransitionsBeyond(remaining) ==
  { tr \in Transitions(remaining) : tr.period >= MIN_ABSTRACT_CHARS }

\* the first of a non-empty set of transitions
FirstTransition(trs) == CHOOSE tr \in trs : \A other \in trs : tr.capital <= other.capital

\* C22: when the period-newline-capital strategy of Priority 3 decides the
\* start and such a transition lies 400 or more characters below the
\* abstract heading, the start is the capital letter of the first of these,
\* at least 400 characters past the abstract start; a transition closer than
\* 400 characters is chosen only when there is none beyond the minimum, and
\* then it is the first transition at any offset.
C22_MinimumAbstractLength ==
  (pc = "text" /\ ~corrupted /\ trace.main.prio = 3 /\ DecidingStrategy(raw_text) = 3) =>
    LET abstract_end == Search(pattern_abstract, raw_text, TRUE).end
        remaining == Slice(raw_text, abstract_end, TextLen(raw_text))
        start_pos == trace.main.start_pos
    IN  /\ Transitions(remaining) # {}
        /\ TransitionsBeyond(remaining) # {} =>
             /\ start_pos = abstract_end + FirstTransition(TransitionsBeyond(remaining)).capital
             /\ start_pos >= abstract_end + MIN_ABSTRACT_CHARS
        /\ TransitionsBeyond(remaining) = {} =>
             start_pos = abstract_end + FirstTransition(Transitions(remaining)).capital
        /\ start_pos < abstract_end + MIN_ABSTRACT_CHARS => TransitionsBeyond(remaining) = {}

\* a sentence break inside the abstract and a paragraph break beyond the
\* minimum: the start is the later one
C22_SentenceBreakPassedOver ==
  /\ pc = "text"
  /\ ~corrupted
  /\ trace.main.prio = 3
  /\ DecidingStrategy(raw_text) = 3
  /\ LET abstract_end == Search(pattern_abstract, raw_text, TRUE).end
         remaining == Slice(raw_text, abstract_end, TextLen(raw_text))
     IN  /\ TransitionsBeyond(remaining) # {}
         /\ Transitions(remaining) # TransitionsBeyond(remaining)
         /\ trace.main.start_pos >= abstract_end + MIN_ABSTRACT_CHARS
         /\ text # None

\* [\s\d]und\s or \s&\s in front of two capitalised words
JoinedByUnd(line_stripped) == Search(author_pattern_und_base, line_stripped, FALSE) # NoMatch

\* a capitalised token directly followed by a digit, *, †, ‡, § or ¶
HasAffiliationMarker(line_stripped) ==
  Search(pattern_affiliation_marker, line_stripped, FALSE) # NoMatch

\* the line begins with a capitalised given and family name
StartsWithName(line_stripped) == Match(pattern_starts_with_name, line_stripped, FALSE) # NoMatch

\* the line has the shape of a comma-separated or of a single-author byline
OtherBylineShape(line_stripped) ==
  \/ Search(author_pattern_commas, line_stripped, FALSE) # NoMatch
  \/ Match(author_pattern_single, line_stripped, FALSE) # NoMatch

\* the title lines collected in front of line i
CollectedBefore(tr, i) == { k \in 1..Len(tr.picked) : tr.picked[k] < i }

BlockOffset(t, e) == TextLen(t) - TextLen(LStrip(Slice(t, e, TextLen(t))))

\* C28: extract_main_content and extract_references select the same
\* references heading.  When the main content is returned, the references
\* are returned exactly when the main content ends in front of len(text),
\* and then it ends at the start of the heading whose end begins the
\* references block, so that the span of the main content and the span of the
\* references in the text do not overlap (a main content that starts behind
\* the heading is empty); when no references are returned neither function
\* found a heading.
C28_SameHeadingNoOverlap ==
  (pc = "references" /\ ~corrupted /\ text # None) =>
    LET m == trace.main
        r == trace.refs
        len == TextLen(raw_text)
    IN  /\ m.heading = r.heading
        /\ references # None <=> m.end_pos < len
        /\ references # None <=> m.heading # NoMatch
        /\ text = Slice(raw_text, m.start_pos, m.end_pos)
        /\ references = None => m.end_pos = len
        /\ references # None =>
             LET a == BlockOffset(raw_text, r.heading.end) IN
             /\ m.end_pos = r.heading.start
             /\ r.heading.start < r.heading.end
             /\ r.heading.end <= a
             /\ a + TextLen(references) <= len
             /\ references = Slice(raw_text, a, a + TextLen(references))
             /\ TextLen(text) > 0 => m.start_pos + TextLen(text) <= a

\* two reference lists: both functions take the heading of the second one,
\* the main content ends in front of it and the references begin behind it
C28_SecondListShared ==
  /\ pc = "references"
  /\ raw_text = TwoLists
  /\ text # None /\ TextLen(text) > 0
  /\ references # None
  /\ Len(MainCandidates(raw_text)) = 2
  /\ trace.main.heading = MainCandidates(raw_text)[2]
  /\ trace.refs.heading = trace.main.heading
  /\ trace.main.end_pos = trace.refs.heading.start

\* the text ends or begins with whitespace
HasOuterWhitespace(t) == t # <<>> /\ (IsSpace(t[1].c) \/ IsSpace(t[Len(t)].c))

\* C29: whenever extract_references returns a value, the value is a
\* non-empty string without leading or trailing whitespace and a prefix of
\* the stripped text behind the selected heading: trimming removes characters
\* only from the tail and never empties the block.
C29_NonEmptyStrippedPrefix ==
  (pc = "references" /\ references # None) =>
    LET after == Strip(Slice(raw_text, trace.refs.heading.end, TextLen(raw_text)))
    IN  /\ trace.refs.heading # NoMatch
        /\ TextLen(references) > 0
        /\ ~HasOuterWhitespace(references)
        /\ TextLen(references) <= TextLen(after)
        /\ references = Slice(after, 0, TextLen(references))
        /\ trace.refs.trim # "" => TextLen(references) < TextLen(after)
        /\ trace.refs.trim = "" => TextLen(references) = TextLen(after)

\* a trailing line was trimmed from a reference list and whitespace in
\* front of it with it: entries are left
C29_TrimmedButNotEmptied ==
  /\ pc = "references"
  /\ references # None
  /\ trace.refs.trim # ""
  /\ TextLen(references) > 0
  /\ TextLen(references) + 1 <
       TextLen(Strip(Slice(raw_text, trace.refs.heading.end, TextLen(raw_text))))

\* the characters of t that are not whitespace, in order
NonSpace(t) == Canon(SelectSeq(t, LAMBDA cell : ~IsSpace(cell.c)))

\* C30: extract_title_from_pdf returns None exactly when no title line was
\* collected; a value it returns is a non-empty string without a newline and
\* without leading or trailing whitespace, and its characters are those of
\* the collected lines, each of which is a non-empty line of more than 5
\* characters that is not all digits.
C30_TitleFromCollectedLines ==
  (pc # "new") =>
    LET tr == trace.title
        lines == TitleWindow(raw_text)
        collected == [k \in 1..Len(tr.picked) |-> Strip(lines[tr.picked[k] + 1])]
    IN  /\ title = None <=> tr.picked = <<>>
        /\ title # None =>
             /\ TextLen(title) > 0
             /\ CountChar(title, "\n") = 0
             /\ ~HasOuterWhitespace(title)
             /\ NonSpace(title) = NonSpace(Concat(collected))
             /\ \A k \in 1..Len(collected) :
                  /\ collected[k] # <<>>
                  /\ TextLen(collected[k]) > 5
                  /\ \E j \in 1..Len(collected[k]) : ~IsDigit(collected[k][j].c)

\* a page whose lines are all too short, all digits or an author line: the
\* loop ran and nothing was collected
C30_NothingCollected ==
  /\ pc = "title"
  /\ ~corrupted
  /\ trace.title.matching
  /\ TextLen(raw_text) > 0
  /\ trace.title.picked = <<>>
  /\ trace.title.stop > trace.title.start_idx
  /\ title = None

-----------------------------------------------------------------------------
(* The annotation run: retries, circuit breaker, checkpoints, resume.      *)

\* the events of one kind in the log of a classification
RECURSIVE CountEvents(_, _)
CountEvents(events, kind) ==
  IF events = <<>> THEN 0
  ELSE (IF Head(events) = kind THEN 1 ELSE 0) + CountEvents(Tail(events), kind)

\* the calls of classify_pdf of the classification
Calls(events) == CountEvents(events, "raise") + CountEvents(events, "return")

\* every wait follows a call that raised
WaitsFollowRaises(events) ==
  \A j \in 1..Len(events) : events[j] = "sleep" => j > 1 /\ events[j - 1] = "raise"

\* the waits stand between the calls: one after every call but the last
WaitsBetweenCalls(events) ==
  /\ WaitsFollowRaises(events)
  /\ events # <<>> /\ events[Len(events)] # "sleep"
  /\ CountEvents(events, "sleep") = Calls(events) - 1

\* C24: classify_pdf_with_retry calls classify_pdf at most MAX_RETRIES times
\* for one PDF; the first call that does not raise ends it with status
\* 'success'; it waits after every failed call but the last one; no
\* exception of classify_pdf ends the run; and after MAX_RETRIES failed
\* calls its result has six fields None and a status that starts with
\* 'failed: '.
C24_BoundedRetries ==
  /\ at = "raised" => log = <<>>
  /\ at \in {"attempt", "sleep", "classified"} =>
       /\ Calls(log) <= MAX_RETRIES
       /\ CountEvents(log, "return") <= 1
       /\ at # "classified" => CountEvents(log, "return") = 0
       /\ WaitsFollowRaises(log)
  /\ at = "classified" =>
       /\ WaitsBetweenCalls(log)
       /\ IF log[Len(log)] = "return"
          THEN retry.result.status = Success
          ELSE /\ CountEvents(log, "raise") = MAX_RETRIES
               /\ \A k \in ResultKeys : retry.result.fields[k] = "None"
               /\ Len(retry.result.status) = 2
               /\ retry.result.status[1] = "failed: "

\* a classification whose MAX_RETRIES calls all raised, with a wait after
\* the first and the second of them only
C24_ThreeCallsTwoWaits ==
  /\ at = "classified"
  /\ log = <<"raise", "sleep", "raise", "sleep", "raise">>
  /\ retry.result.status = Failed(ConnectionError)

\* the records this run has produced: the last processed_count of results
OwnRecords(r) == SubSeq(r.results, Len(r.results) - r.processed_count + 1, Len(r.results))

\* the failed records at the end of a list of records
RECURSIVE TrailingFailures(_)
TrailingFailures(records) ==
  IF records = <<>> \/ records[Len(records)].status = Success THEN 0
  ELSE 1 + TrailingFailures(SubSeq(records, 1, Len(records) - 1))

\* n failed records in a row, somewhere in the list
HasFailureStreak(records, n) ==
  \E i \in 1..(Len(records) - n + 1) : \A j \in i..(i + n - 1) : records[j].status # Success

\* C25: between two classifications the consecutive-error counter is the
\* number of failed records at the end of the records of this run, so each
\* failure adds one and each success resets it; a classification only runs
\* while it is below MAX_CONSECUTIVE_ERRORS; when it reaches that value the
\* loop is left with the failed record in the results; and the records of
\* one run never hold more than MAX_CONSECUTIVE_ERRORS failures in a row.
C25_CircuitBreaker ==
  /\ at \in {"loop", "break", "returned"} =>
       /\ run.consecutive_errors = TrailingFailures(OwnRecords(run))
       /\ ~HasFailureStreak(OwnRecords(run), MAX_CONSECUTIVE_ERRORS + 1)
  /\ at \in {"loop", "attempt", "sleep", "classified"} =>
       run.consecutive_errors < MAX_CONSECUTIVE_ERRORS
  /\ at = "break" =>
       /\ run.consecutive_errors = MAX_CONSECUTIVE_ERRORS
       /\ run.results[Len(run.results)].status # Success
       /\ run.results[Len(run.results)].filename = retry.pdf.pdf_path.name
  /\ (at = "returned" /\ run.next < Len(run.pdfs_to_process)) =>
       run.consecutive_errors = MAX_CONSECUTIVE_ERRORS

\* a run that returned after ten failures in a row behind a success, with
\* PDFs of its list left unclassified
C25_TrippedBehindSuccess ==
  /\ at = "returned"
  /\ run.consecutive_errors = MAX_CONSECUTIVE_ERRORS
  /\ run.processed_count > MAX_CONSECUTIVE_ERRORS
  /\ run.next < Len(run.pdfs_to_process)
  /\ HasFailureStreak(OwnRecords(run), MAX_CONSECUTIVE_ERRORS)

\* the rows of a checkpoint file, none if the file does not exist
Rows(disk, path) == IF path \in DOMAIN disk THEN disk[path] ELSE <<>>

\* a row of a checkpoint file holds the record: its edition, year and file
\* name, its status, and its six values as a CSV cell holds them
HoldsRecord(row, record) ==
  /\ row.lni_edition = record.lni_edition
  /\ row.year = record.year
  /\ row.filename = record.filename
  /\ row.status = record.status
  /\ \A k \in ResultKeys :
       IF IsMissing(record.fields[k]) THEN row.fields[k] = ""
       ELSE AsFloat(row.fields[k]) = AsFloat(record.fields[k])

\* the rows are the first records of the list, in order
HoldsFirstRecords(rows, records) ==
  /\ Len(rows) <= Len(records)
  /\ \A j \in 1..Len(rows) : HoldsRecord(rows[j], records[j])

\* the records of this run that its checkpoint file does not hold
Unwritten(disk, r) ==
  IF r.current_checkpoint_path \in DOMAIN disk
  THEN Len(r.results) - Len(disk[r.current_checkpoint_path])
  ELSE r.processed_count

\* C26: while the loop of process_pdfs runs, fewer than
\* CHECKPOINT_FREQUENCY records of this run are missing from the checkpoint
\* file of the run; the file, once written, holds the records accumulated
\* when it was written, from the first one on and with the records loaded
\* from a resumed checkpoint; and when process_pdfs has returned, after the
\* last PDF or after the circuit breaker, the file holds every record.
C26_CheckpointsComplete ==
  at \in {"loop", "attempt", "sleep", "classified", "break", "returned"} =>
    /\ HoldsFirstRecords(Rows(files, run.current_checkpoint_path), run.results)
    /\ run.current_checkpoint_path \in DOMAIN files =>
         Len(files[run.current_checkpoint_path]) >= Len(run.results) - run.processed_count
    /\ at \in {"loop", "attempt", "sleep", "classified"} =>
         Unwritten(files, run) < CHECKPOINT_FREQUENCY
    /\ at = "returned" =>
         /\ run.current_checkpoint_path \in DOMAIN files
         /\ Len(files[run.current_checkpoint_path]) = Len(run.results)

\* a resumed run has returned: its own checkpoint file holds the records
\* it loaded and the records it produced, with a value None among them
C26_ResumedRunSaved ==
  /\ at = "returned"
  /\ run.processed_count > 0
  /\ Len(run.results) > run.processed_count
  /\ Len(files[run.current_checkpoint_path]) = Len(run.results)
  /\ \E j \in 1..Len(run.results) : run.results[j].fields["label_empirical_study"] = "None"

\* the records of a PDF in a list of records: those of its folder and name
RecordsOf(records, pdf) ==
  { j \in 1..Len(records) :
      records[j].lni_edition = pdf.lni_folder /\ records[j].filename = pdf.pdf_path.name }

\* the records the run loaded from the checkpoint it resumed from
LoadedRecords(r) == SubSeq(r.results, 1, Len(r.results) - r.processed_count)

\* the PDF is one of those the run classifies
IsToProcess(r, pdf) == \E k \in 1..Len(r.pdfs_to_process) : r.pdfs_to_process[k] = pdf

\* the run has returned after the last PDF of its list, the breaker untripped
Completed ==
  /\ at = "returned"
  /\ run.next = Len(run.pdfs_to_process)
  /\ run.consecutive_errors < MAX_CONSECUTIVE_ERRORS

\* C27: a run classifies exactly the PDFs of pdf_list that have no record
\* in the checkpoint it resumed from, and a run that has returned after its
\* last PDF without tripping the breaker, resumed or not, has exactly one
\* record for every PDF of pdf_list.
C27_ResumeCompletes ==
  /\ (at = "loop" /\ run.processed_count = 0) =>
       \A i \in 1..Len(pdf_list) :
         IsToProcess(run, pdf_list[i]) <=> RecordsOf(LoadedRecords(run), pdf_list[i]) = {}
  /\ Completed =>
       \A i \in 1..Len(pdf_list) : Cardinality(RecordsOf(run.results, pdf_list[i])) = 1

====
